---- MODULE Spec2Model ----
(***************************************************************************)
(* Inventory transfer engine of the cozy-comfort backend: the three stock  *)
(* transfers (manufacturer -> distributor -> seller -> customer), the      *)
(* listing projection kept in products_for_sale, and the order journals.   *)
(*                                                                         *)
(* Every request runs in a database session of its own (get_db).  A        *)
(* handler reads rows with plain SELECTs, changes the loaded objects in    *)
(* the session, and db.commit() flushes the changed attributes as absolute *)
(* values and commits.  A request is a process p; the steps of a handler   *)
(* are the points where it reads or writes the shared store.               *)
(*                                                                         *)
(* Money is counted in hundredths of the currency unit, so the 0.01        *)
(* tolerance of the total check is 1.                                      *)
(***************************************************************************)
EXTENDS Integers, Sequences, FiniteSets, TLC

\* ---- bounds of the model ----
MaxStock == 1
NegQty == 1
MaxOps == 1

\* ---- the users table (static in this model) and the names callers may send ----
UserNames == {"D1", "S1"}
GhostName == "X"
Names == UserNames \cup {GhostName}
CustomerNames == {"C1"}

UserId(n) == IF n = "D1" THEN 1 ELSE 2

\* process_customer_order may be called with no current_user at all
NoUser == "nobody"

UserRole(n) == IF n = "D1" THEN "distributor" ELSE IF n = "S1" THEN "seller" ELSE ""

\* blanket 1 exists, blanket 2 is an id no row has
BlanketIds == {1, 2}
KnownBlankets == {1}
\* quantities a caller may send: nothing validates their sign, and one more than any
\* initial stock can be asked for
Qty == (0 - NegQty)..(MaxStock + 1)
Prices == {3}
\* a price update_product_for_sale may set
NewPrices == {4}
\* totals a caller may send along with a purchase; NoTotal stands for None
ProvidedTotals == {2, 5}
NoTotal == 0 - 1
Seq1Procs == {1}
Procs == {1, 2}

IN_STOCK == "In stock"
OUT_OF_STOCK == "Out of stock"

VARIABLES
  blankets,            \* blankets.id -> stock
  distributor_stock,   \* <<distributor_name, blanket_id>> -> quantity
  seller_inventory,    \* <<seller_name, blanket_id>> -> quantity
  products_for_sale,   \* <<seller_id, blanket_id>> -> [price, quantity, availability]
  distributor_orders,  \* sequence of DistributorOrder rows
  seller_orders,       \* sequence of SellerOrder rows
  customer_orders,     \* sequence of CustomerOrder rows
  stock_rows,          \* number of rows each stock table holds for each of its pairs
  pc,                  \* position of each request in its handler
  req,                 \* arguments of each request
  sess,                \* objects loaded and pending in each request's session
  out,                 \* what each request returned or raised
  nops                 \* number of requests started

store == <<blankets, distributor_stock, seller_inventory, products_for_sale,
           distributor_orders, seller_orders, customer_orders, stock_rows>>
vars == <<blankets, distributor_stock, seller_inventory, products_for_sale,
          distributor_orders, seller_orders, customer_orders, stock_rows,
          pc, req, sess, out, nops>>

\* ---- rows and records ----
NoReq == [op |-> "none", blanket_id |-> 0, quantity |-> 0, distributor_name |-> "",
          seller_name |-> "", customer_name |-> "", user |-> "", price |-> 0,
          has_total |-> FALSE, total |-> 0, owner |-> 0, set_price |-> FALSE,
          availability |-> "", order_id |-> 0, status |-> ""]

NoSess == [src |-> 0, src_new |-> 0, dst_found |-> FALSE, dst |-> 0, dst_new |-> 0,
           inv |-> 0, product_found |-> FALSE, price |-> 0, p_quantity |-> 0,
           p_availability |-> "", status |-> "", has_value |-> FALSE, total_value |-> 0,
           order_id |-> 0]

NoOut == [status |-> "none", err |-> "", source_remaining |-> 0, dest_stock |-> 0,
          processed_quantity |-> 0, has_value |-> FALSE, total_value |-> 0,
          available |-> FALSE, current_stock |-> 0, order_id |-> 0]

PutMut(table, key, value) == [k \in DOMAIN table \cup {key} |-> value]
Put(table, key, value) == [k \in DOMAIN table \cup {key} |-> IF k = key THEN value ELSE table[k]]

QuantityOf(table, key) == IF key \in DOMAIN table THEN table[key] ELSE 0

\* the INSERT of a stock row: one more row for its pair
Inserted(rows, key) == Put(rows, key, QuantityOf(rows, key) + 1)

\* unique_distributor_blanket / unique_seller_blanket: the INSERT a session makes
\* because it found no row is rejected when a row for the pair is there by now
UniqueViolationMut(found, table, key) == FALSE
UniqueViolation(found, table, key) == ~found /\ key \in DOMAIN table

\* db.add(order): the INSERT of one journal row at the commit
AddOrderMut(orders, record) == Append(Append(orders, record), record)
AddOrder(orders, record) == Append(orders, record)

\* ---- the arithmetic of the handlers ----
\* `if blanket.stock < quantity: raise` and its two siblings
InsufficientStrict(available, quantity) == available <= quantity
InsufficientMut(available, quantity) == FALSE
Insufficient(available, quantity) == available < quantity

\* `blanket.stock -= quantity`
DebitMut(available, quantity) == available - quantity - 1
Debit(available, quantity) == available - quantity

\* `distributor_stock.quantity += quantity`, or a new row holding `quantity`
CreditFresh(found, existing, quantity) == IF found THEN existing + quantity ELSE 0
CreditMut(found, existing, quantity) == IF found THEN existing + quantity + 1 ELSE quantity + 1
Credit(found, existing, quantity) == IF found THEN existing + quantity ELSE quantity

Abs(x) == IF x < 0 THEN 0 - x ELSE x

\* `abs(provided_total_value - calculated_total_value) > 0.01`
TotalTolerance == 1
TotalMismatch(provided, calculated) == Abs(provided - calculated) > TotalTolerance

\* `calculated_total_value = product.price * quantity`
CalculatedTotalMut(price, quantity) == price + quantity
CalculatedTotal(price, quantity) == price * quantity

\* `"completed" if current_user and current_user.role == "seller" else "pending"`
OrderStatusMut(role) == IF role = "seller" THEN "completed" ELSE "confirmed"
OrderStatus(role) == IF role = "seller" THEN "completed" ELSE "pending"

\* availability chosen by create_product_for_sale
InitialAvailabilityMut(quantity) == IN_STOCK
InitialAvailability(quantity) == IF quantity > 0 THEN IN_STOCK ELSE OUT_OF_STOCK

\* availability after sync_product_quantity_with_inventory
SyncAvailabilitySticky(availability, quantity) ==
  IF quantity = 0 THEN OUT_OF_STOCK ELSE availability
SyncAvailability(availability, quantity) ==
  IF quantity = 0 THEN OUT_OF_STOCK
  ELSE IF availability = OUT_OF_STOCK /\ quantity > 0 THEN IN_STOCK
  ELSE availability

\* what a caller of sync_product_quantity_with_inventory does with its ValueError:
\* each of the three callers wraps the call in try/except and passes
SwallowedMut(op) == op # "process_seller_order"
Swallowed(op) ==
  op \in {"process_seller_order", "customer_purchase", "request_stock_from_distributor"}

\* the listing of a (seller, blanket) pair as a query returns it
NoListing == [found |-> FALSE, price |-> 0, quantity |-> 0, availability |-> ""]

ListingOf(table, seller_name, blanket_id) ==
  IF seller_name \in UserNames /\ <<UserId(seller_name), blanket_id>> \in DOMAIN table
  THEN [found |-> TRUE, price |-> table[<<UserId(seller_name), blanket_id>>].price,
        quantity |-> table[<<UserId(seller_name), blanket_id>>].quantity,
        availability |-> table[<<UserId(seller_name), blanket_id>>].availability]
  ELSE NoListing

\* the three refusals of customer_purchase, in the order the controller tests them
ListingErrorOpen(l, requested) ==
  IF l.found /\ l.availability = OUT_OF_STOCK THEN "OutOfStock"
  ELSE IF l.found /\ l.quantity < requested THEN "InsufficientQuantity"
  ELSE ""
ListingErrorSwapped(l, requested) ==
  IF ~l.found THEN "NotPublished"
  ELSE IF l.quantity < requested THEN "InsufficientQuantity"
  ELSE IF l.availability = OUT_OF_STOCK THEN "OutOfStock"
  ELSE ""
ListingError(l, requested) ==
  IF ~l.found THEN "NotPublished"
  ELSE IF l.availability = OUT_OF_STOCK THEN "OutOfStock"
  ELSE IF l.quantity < requested THEN "InsufficientQuantity"
  ELSE ""

\* ---- a handler raising, returning, and the session being closed ----
Raise(p, e) ==
  /\ pc' = [pc EXCEPT ![p] = "done"]
  /\ out' = [out EXCEPT ![p] = [NoOut EXCEPT !.status = "error", !.err = e]]

GotoStay(p, label) == pc' = pc
Goto(p, label) == pc' = [pc EXCEPT ![p] = label]

Begin(p, r, label) ==
  /\ pc[p] = "idle"
  /\ nops' = nops + 1
  /\ req' = [req EXCEPT ![p] = r]
  /\ pc' = [pc EXCEPT ![p] = label]
  /\ UNCHANGED <<store, sess, out>>

\* get_db's finally: the session is closed, pending changes are dropped
CloseSession(p) ==
  /\ pc[p] = "done"
  /\ pc' = [pc EXCEPT ![p] = "idle"]
  /\ req' = [req EXCEPT ![p] = NoReq]
  /\ sess' = [sess EXCEPT ![p] = NoSess]
  /\ out' = [out EXCEPT ![p] = NoOut]
  /\ UNCHANGED <<store, nops>>

\* ---- initial states: stock on hand, an optional listing, empty journals ----
Init ==
  /\ blankets \in [{1} -> 0..MaxStock]
  /\ \E d \in SUBSET {<<"D1", 1>>} : distributor_stock \in [d -> 0..MaxStock]
  /\ \E s \in SUBSET {<<"S1", 1>>} : seller_inventory \in [s -> 0..MaxStock]
  /\ \/ products_for_sale = <<>>
     \/ /\ <<"S1", 1>> \in DOMAIN seller_inventory
        /\ \E pr \in Prices :
             products_for_sale = [k \in {<<UserId("S1"), 1>>} |->
                [price |-> pr, quantity |-> seller_inventory[<<"S1", 1>>],
                 availability |-> InitialAvailability(seller_inventory[<<"S1", 1>>])]]
  /\ distributor_orders = <<>>
  /\ seller_orders = <<>>
  /\ customer_orders = <<>>
  /\ stock_rows = [distributor |-> [k \in DOMAIN distributor_stock |-> 1],
                   seller |-> [k \in DOMAIN seller_inventory |-> 1]]
  /\ pc = [p \in Procs |-> "idle"]
  /\ req = [p \in Procs |-> NoReq]
  /\ sess = [p \in Procs |-> NoSess]
  /\ out = [p \in Procs |-> NoOut]
  /\ nops = 0

\* ---- process_distributor_order (manufacturer -> distributor) ----
DistributorOrderFrom(p, blanketIds, distributors, users) ==
  \E b \in blanketIds, q \in Qty, d \in distributors, u \in users :
    Begin(p, [NoReq EXCEPT !.op = "process_distributor_order", !.blanket_id = b,
                           !.quantity = q, !.distributor_name = d, !.user = u],
          "pdo_check")

\* read the blanket, check the stock, debit the loaded object
PdoCheck(p) ==
  /\ pc[p] = "pdo_check"
  /\ UNCHANGED <<store, req, nops>>
  /\ LET r == req[p] IN
     IF r.blanket_id \notin DOMAIN blankets
     THEN Raise(p, "BlanketNotFound") /\ UNCHANGED sess
     ELSE IF Insufficient(blankets[r.blanket_id], r.quantity)
     THEN /\ Raise(p, "InsufficientStock")
          /\ sess' = [sess EXCEPT ![p].src = blankets[r.blanket_id],
                                  ![p].src_new = blankets[r.blanket_id]]
     ELSE /\ sess' = [sess EXCEPT ![p].src = blankets[r.blanket_id],
                                  ![p].src_new = Debit(blankets[r.blanket_id], r.quantity)]
          /\ Goto(p, "pdo_dest")
          /\ UNCHANGED out

\* read the distributor's stock row, credit it or prepare a new row
PdoDest(p) ==
  /\ pc[p] = "pdo_dest"
  /\ UNCHANGED <<store, req, out, nops>>
  /\ LET r == req[p]
         k == <<r.distributor_name, r.blanket_id>>
         found == k \in DOMAIN distributor_stock
         old == QuantityOf(distributor_stock, k)
     IN sess' = [sess EXCEPT ![p].dst_found = found, ![p].dst = old,
                             ![p].dst_new = Credit(found, old, r.quantity)]
  /\ Goto(p, "pdo_commit")

\* db.commit(): UPDATE blankets, UPDATE or INSERT distributor_stock, INSERT the order
PdoCommit(p) ==
  /\ pc[p] = "pdo_commit"
  /\ UNCHANGED <<seller_inventory, products_for_sale, seller_orders, customer_orders,
                 req, nops>>
  /\ LET r == req[p]
         s == sess[p]
         k == <<r.distributor_name, r.blanket_id>>
     IN IF UniqueViolation(s.dst_found, distributor_stock, k)
        THEN \* unique_distributor_blanket rejects the INSERT; nothing is committed
             /\ Raise(p, "IntegrityError")
             /\ UNCHANGED <<blankets, distributor_stock, distributor_orders, stock_rows, sess>>
        ELSE /\ blankets' = IF s.src_new # s.src
                            THEN [blankets EXCEPT ![r.blanket_id] = s.src_new]
                            ELSE blankets
             /\ distributor_stock' = IF s.dst_found /\ s.dst_new = s.dst
                                     THEN distributor_stock
                                     ELSE Put(distributor_stock, k, s.dst_new)
             /\ stock_rows' = IF s.dst_found THEN stock_rows
                              ELSE [stock_rows EXCEPT !.distributor = Inserted(@, k)]
             /\ distributor_orders' = AddOrder(distributor_orders,
                    [distributor_id |-> UserId(r.user), blanket_id |-> r.blanket_id,
                     quantity |-> r.quantity])
             \* the id the INSERT gave the order: its position in the journal
             /\ sess' = [sess EXCEPT ![p].order_id = Len(distributor_orders) + 1]
             /\ Goto(p, "pdo_refresh")
             /\ UNCHANGED out

\* db.refresh(...) and the returned dict
PdoRefresh(p) ==
  /\ pc[p] = "pdo_refresh"
  /\ UNCHANGED <<store, req, sess, nops>>
  /\ LET r == req[p] IN
     out' = [out EXCEPT ![p] = [NoOut EXCEPT
               !.status = "ok",
               !.source_remaining = blankets[r.blanket_id],
               !.dest_stock = distributor_stock[<<r.distributor_name, r.blanket_id>>],
               !.processed_quantity = r.quantity,
               !.order_id = sess[p].order_id]]
  /\ Goto(p, "done")

\* ---- sync_product_quantity_with_inventory, called after a commit ----
\* The seller's inventory object was reloaded by db.refresh just before (its
\* quantity is sess[p].inv); the listing is loaded afresh.  A missing seller,
\* inventory row or listing raises ValueError, which every caller swallows.
SyncRead(p) ==
  /\ pc[p] = "sync_read"
  /\ UNCHANGED <<store, req, nops>>
  /\ LET r == req[p]
         l == ListingOf(products_for_sale, r.seller_name, r.blanket_id)
     IN IF ~l.found /\ Swallowed(r.op)
        THEN /\ out' = [out EXCEPT ![p].status = "ok"]
             /\ Goto(p, "done")
             /\ UNCHANGED sess
        ELSE IF ~l.found
        THEN Raise(p, "SyncFailed") /\ UNCHANGED sess
        ELSE /\ sess' = [sess EXCEPT
                   ![p].product_found = TRUE, ![p].price = l.price,
                   ![p].p_quantity = l.quantity, ![p].p_availability = l.availability]
             /\ Goto(p, "sync_commit")
             /\ UNCHANGED out

\* the balances a caller reads off its objects after sync's commit expired them
ReloadedStale(p) == [out[p] EXCEPT !.status = "ok", !.source_remaining = sess[p].src]
Reloaded(p) ==
  LET r == req[p] IN
  IF r.op = "process_seller_order"
  THEN [out[p] EXCEPT !.status = "ok",
                      !.source_remaining = distributor_stock[<<r.distributor_name, r.blanket_id>>],
                      !.dest_stock = seller_inventory[<<r.seller_name, r.blanket_id>>]]
  ELSE IF r.op = "customer_purchase"
  THEN [out[p] EXCEPT !.status = "ok",
                      !.source_remaining = seller_inventory[<<r.seller_name, r.blanket_id>>]]
  ELSE [out[p] EXCEPT !.status = "ok",
                      !.dest_stock = seller_inventory[<<r.seller_name, r.blanket_id>>]]

\* product.quantity and product.availability are set and committed; the UPDATE
\* carries the changed columns only, and fails when the row is gone
SyncCommit(p) ==
  /\ pc[p] = "sync_commit"
  /\ UNCHANGED <<blankets, distributor_stock, seller_inventory, distributor_orders,
                 seller_orders, customer_orders, stock_rows, req, sess, nops>>
  /\ LET r == req[p]
         s == sess[p]
         k == <<UserId(r.seller_name), r.blanket_id>>
         q == s.inv
         a == SyncAvailability(s.p_availability, q)
     IN IF q = s.p_quantity /\ a = s.p_availability
        THEN /\ UNCHANGED products_for_sale
             /\ out' = [out EXCEPT ![p] = Reloaded(p)]
        ELSE IF k \notin DOMAIN products_for_sale
        THEN /\ UNCHANGED products_for_sale
             /\ out' = [out EXCEPT ![p] = [NoOut EXCEPT !.status = "error", !.err = "StaleData"]]
        ELSE /\ products_for_sale' = [products_for_sale EXCEPT
                   ![k].quantity = IF q # s.p_quantity THEN q ELSE @,
                   ![k].availability = IF a # s.p_availability THEN a ELSE @]
             /\ out' = [out EXCEPT ![p] = Reloaded(p)]
  /\ Goto(p, "done")

\* ---- process_seller_order (distributor -> seller) ----
SellerOrderFrom(p, distributors, sellers) ==
  \E b \in KnownBlankets, q \in Qty, d \in distributors, s \in sellers :
    Begin(p, [NoReq EXCEPT !.op = "process_seller_order", !.blanket_id = b,
                           !.quantity = q, !.distributor_name = d, !.seller_name = s],
          "pso_check")

\* the lookups process_seller_order makes before it touches anything: the seller,
\* the distributor, the distributor's stock row
SellerOrderErrorMut(seller_name, distributor_name, has_row) ==
  IF distributor_name \notin UserNames THEN "DistributorNotFound"
  ELSE IF ~has_row THEN "NoStock"
  ELSE ""
SellerOrderError(seller_name, distributor_name, has_row) ==
  IF seller_name \notin UserNames THEN "SellerNotFound"
  ELSE IF distributor_name \notin UserNames THEN "DistributorNotFound"
  ELSE IF ~has_row THEN "NoStock"
  ELSE ""

\* look up both users, read the distributor's row, check and debit it
PsoCheck(p) ==
  /\ pc[p] = "pso_check"
  /\ UNCHANGED <<store, req, nops>>
  /\ LET r == req[p]
         k == <<r.distributor_name, r.blanket_id>>
         e == SellerOrderError(r.seller_name, r.distributor_name, k \in DOMAIN distributor_stock)
     IN IF e # ""
        THEN Raise(p, e) /\ UNCHANGED sess
        ELSE IF Insufficient(distributor_stock[k], r.quantity)
        THEN /\ Raise(p, "InsufficientStock")
             /\ sess' = [sess EXCEPT ![p].src = distributor_stock[k],
                                     ![p].src_new = distributor_stock[k]]
        ELSE /\ sess' = [sess EXCEPT ![p].src = distributor_stock[k],
                                     ![p].src_new = Debit(distributor_stock[k], r.quantity)]
             /\ Goto(p, "pso_dest")
             /\ UNCHANGED out

\* read the seller's inventory row, credit it or prepare a new row
PsoDest(p) ==
  /\ pc[p] = "pso_dest"
  /\ UNCHANGED <<store, req, out, nops>>
  /\ LET r == req[p]
         k == <<r.seller_name, r.blanket_id>>
         found == k \in DOMAIN seller_inventory
         old == QuantityOf(seller_inventory, k)
     IN sess' = [sess EXCEPT ![p].dst_found = found, ![p].dst = old,
                             ![p].dst_new = Credit(found, old, r.quantity)]
  /\ Goto(p, "pso_commit")

\* db.commit(): UPDATE distributor_stock, UPDATE or INSERT seller_inventory, INSERT the order
PsoCommit(p) ==
  /\ pc[p] = "pso_commit"
  /\ UNCHANGED <<blankets, products_for_sale, distributor_orders, customer_orders,
                 req, sess, nops>>
  /\ LET r == req[p]
         s == sess[p]
         ks == <<r.distributor_name, r.blanket_id>>
         kd == <<r.seller_name, r.blanket_id>>
     IN IF UniqueViolation(s.dst_found, seller_inventory, kd)
        THEN \* unique_seller_blanket rejects the INSERT; nothing is committed
             /\ Raise(p, "IntegrityError")
             /\ UNCHANGED <<distributor_stock, seller_inventory, seller_orders, stock_rows>>
        ELSE /\ distributor_stock' = IF s.src_new # s.src
                                     THEN [distributor_stock EXCEPT ![ks] = s.src_new]
                                     ELSE distributor_stock
             /\ seller_inventory' = IF s.dst_found /\ s.dst_new = s.dst
                                    THEN seller_inventory
                                    ELSE Put(seller_inventory, kd, s.dst_new)
             /\ stock_rows' = IF s.dst_found THEN stock_rows
                              ELSE [stock_rows EXCEPT !.seller = Inserted(@, kd)]
             /\ seller_orders' = AddOrder(seller_orders,
                    [seller_id |-> UserId(r.seller_name),
                     distributor_id |-> UserId(r.distributor_name),
                     blanket_id |-> r.blanket_id, quantity |-> r.quantity])
             /\ Goto(p, "pso_refresh")
             /\ UNCHANGED out

\* db.refresh(...): the reloaded balances, which the call will return
PsoRefresh(p) ==
  /\ pc[p] = "pso_refresh"
  /\ UNCHANGED <<store, req, nops>>
  /\ LET r == req[p]
         ks == <<r.distributor_name, r.blanket_id>>
         kd == <<r.seller_name, r.blanket_id>>
     IN /\ sess' = [sess EXCEPT ![p].inv = seller_inventory[kd]]
        /\ out' = [out EXCEPT ![p] = [NoOut EXCEPT
                     !.source_remaining = distributor_stock[ks],
                     !.dest_stock = seller_inventory[kd],
                     !.processed_quantity = r.quantity]]
  /\ Goto(p, "sync_read")

\* ---- customer_purchase and process_customer_order (seller -> customer) ----
CustomerPurchaseFrom(p, sellers, users, totals) ==
  \E b \in KnownBlankets, q \in Qty, s \in sellers, c \in CustomerNames, u \in users,
     t \in totals :
    Begin(p, [NoReq EXCEPT !.op = "customer_purchase", !.blanket_id = b, !.quantity = q,
                           !.seller_name = s, !.customer_name = c, !.user = u,
                           !.has_total = (t # NoTotal), !.total = IF t = NoTotal THEN 0 ELSE t],
          "cp_listing")

\* the controller's look at the listing before it calls the service
CpListing(p) ==
  /\ pc[p] = "cp_listing"
  /\ UNCHANGED <<store, req, nops>>
  /\ LET r == req[p]
         l == ListingOf(products_for_sale, r.seller_name, r.blanket_id)
         e == ListingError(l, r.quantity)
     IN IF e # ""
        THEN Raise(p, e) /\ UNCHANGED sess
        ELSE /\ sess' = [sess EXCEPT
                   ![p].product_found = l.found, ![p].price = l.price,
                   ![p].p_quantity = l.quantity, ![p].p_availability = l.availability]
             /\ Goto(p, "pco_check")
             /\ UNCHANGED out

\* process_customer_order: read the seller's inventory row, check and debit it
PcoCheck(p) ==
  /\ pc[p] = "pco_check"
  /\ UNCHANGED <<store, req, nops>>
  /\ LET r == req[p]
         k == <<r.seller_name, r.blanket_id>>
     IN IF k \notin DOMAIN seller_inventory
        THEN Raise(p, "NoInventory") /\ UNCHANGED sess
        ELSE IF Insufficient(seller_inventory[k], r.quantity)
        THEN /\ Raise(p, "InsufficientStock")
             /\ sess' = [sess EXCEPT ![p].src = seller_inventory[k],
                                     ![p].src_new = seller_inventory[k]]
        ELSE /\ sess' = [sess EXCEPT ![p].src = seller_inventory[k],
                                     ![p].src_new = Debit(seller_inventory[k], r.quantity),
                                     ![p].status = OrderStatus(UserRole(r.user))]
             /\ Goto(p, "pco_total")
             /\ UNCHANGED out

\* the listing is queried again for its price (the session returns the object it
\* already holds when the row is still there); the total is computed and compared
PcoTotal(p) ==
  /\ pc[p] = "pco_total"
  /\ UNCHANGED <<store, req, nops>>
  /\ LET r == req[p]
         s == sess[p]
         product == ListingOf(products_for_sale, r.seller_name, r.blanket_id).found
         calculated == CalculatedTotal(s.price, r.quantity)
     IN IF r.has_total /\ product /\ TotalMismatch(r.total, calculated)
        THEN Raise(p, "TotalMismatch") /\ UNCHANGED sess
        ELSE /\ sess' = [sess EXCEPT ![p].has_value = product,
                                     ![p].total_value = IF product THEN calculated ELSE 0]
             /\ Goto(p, "pco_commit")
             /\ UNCHANGED out

\* db.commit(): UPDATE seller_inventory, INSERT the customer order
PcoCommit(p) ==
  /\ pc[p] = "pco_commit"
  /\ UNCHANGED <<blankets, distributor_stock, products_for_sale, distributor_orders,
                 seller_orders, stock_rows, req, sess, out, nops>>
  /\ LET r == req[p]
         s == sess[p]
         k == <<r.seller_name, r.blanket_id>>
     IN /\ seller_inventory' = IF s.src_new # s.src
                               THEN [seller_inventory EXCEPT ![k] = s.src_new]
                               ELSE seller_inventory
        /\ customer_orders' = AddOrder(customer_orders,
               [customer_name |-> r.customer_name, seller_name |-> r.seller_name,
                blanket_id |-> r.blanket_id, quantity |-> r.quantity, status |-> s.status,
                has_value |-> s.has_value, total_value |-> s.total_value])
  /\ Goto(p, "pco_refresh")

\* db.refresh(seller_inventory), db.refresh(customer_order)
PcoRefresh(p) ==
  /\ pc[p] = "pco_refresh"
  /\ UNCHANGED <<store, req, nops>>
  /\ LET r == req[p]
         k == <<r.seller_name, r.blanket_id>>
     IN /\ sess' = [sess EXCEPT ![p].inv = seller_inventory[k]]
        /\ out' = [out EXCEPT ![p] = [NoOut EXCEPT
                     !.source_remaining = seller_inventory[k],
                     !.processed_quantity = r.quantity,
                     !.has_value = sess[p].has_value,
                     !.total_value = sess[p].total_value]]
  /\ Goto(p, "sync_read")

\* ---- request_stock_from_distributor ----
StockRequestFrom(p, sellers) ==
  \E b \in KnownBlankets, q \in Qty, s \in sellers :
    Begin(p, [NoReq EXCEPT !.op = "request_stock_from_distributor", !.blanket_id = b,
                           !.quantity = q, !.seller_name = s],
          "rsd_read")

RsdRead(p) ==
  /\ pc[p] = "rsd_read"
  /\ UNCHANGED <<store, req, out, nops>>
  /\ LET r == req[p]
         k == <<r.seller_name, r.blanket_id>>
         found == k \in DOMAIN seller_inventory
         old == QuantityOf(seller_inventory, k)
     IN sess' = [sess EXCEPT ![p].dst_found = found, ![p].dst = old,
                             ![p].dst_new = Credit(found, old, r.quantity)]
  /\ Goto(p, "rsd_commit")

RsdCommit(p) ==
  /\ pc[p] = "rsd_commit"
  /\ UNCHANGED <<blankets, distributor_stock, products_for_sale, distributor_orders,
                 seller_orders, customer_orders, req, sess, nops>>
  /\ LET r == req[p]
         s == sess[p]
         k == <<r.seller_name, r.blanket_id>>
     IN IF UniqueViolation(s.dst_found, seller_inventory, k)
        THEN Raise(p, "IntegrityError") /\ UNCHANGED <<seller_inventory, stock_rows>>
        ELSE /\ seller_inventory' = IF s.dst_found /\ s.dst_new = s.dst
                                    THEN seller_inventory
                                    ELSE Put(seller_inventory, k, s.dst_new)
             /\ stock_rows' = IF s.dst_found THEN stock_rows
                              ELSE [stock_rows EXCEPT !.seller = Inserted(@, k)]
             /\ Goto(p, "rsd_refresh")
             /\ UNCHANGED out

RsdRefresh(p) ==
  /\ pc[p] = "rsd_refresh"
  /\ UNCHANGED <<store, req, nops>>
  /\ LET r == req[p]
         k == <<r.seller_name, r.blanket_id>>
     IN /\ sess' = [sess EXCEPT ![p].inv = seller_inventory[k]]
        /\ out' = [out EXCEPT ![p] = [NoOut EXCEPT !.dest_stock = seller_inventory[k],
                                                   !.processed_quantity = r.quantity]]
  /\ Goto(p, "sync_read")

\* ---- create_product_for_sale (publish) ----
PublishFrom(p, users) ==
  \E b \in KnownBlankets, u \in users, pr \in Prices :
    Begin(p, [NoReq EXCEPT !.op = "create_product_for_sale", !.blanket_id = b,
                           !.seller_name = u, !.user = u, !.price = pr],
          "publish_check")

PublishCheck(p) ==
  /\ pc[p] = "publish_check"
  /\ UNCHANGED <<store, req, nops>>
  /\ LET r == req[p] IN
     IF <<r.seller_name, r.blanket_id>> \notin DOMAIN seller_inventory
     THEN Raise(p, "NoInventory") /\ UNCHANGED sess
     ELSE IF <<UserId(r.seller_name), r.blanket_id>> \in DOMAIN products_for_sale
     THEN Raise(p, "AlreadyPublished") /\ UNCHANGED sess
     ELSE /\ sess' = [sess EXCEPT
                ![p].inv = seller_inventory[<<r.seller_name, r.blanket_id>>],
                ![p].p_quantity = seller_inventory[<<r.seller_name, r.blanket_id>>],
                ![p].p_availability =
                    InitialAvailability(seller_inventory[<<r.seller_name, r.blanket_id>>])]
          /\ Goto(p, "publish_commit")
          /\ UNCHANGED out

PublishCommit(p) ==
  /\ pc[p] = "publish_commit"
  /\ UNCHANGED <<blankets, distributor_stock, seller_inventory, distributor_orders,
                 seller_orders, customer_orders, stock_rows, req, sess, nops>>
  /\ LET r == req[p]
         k == <<UserId(r.seller_name), r.blanket_id>>
     IN IF k \in DOMAIN products_for_sale
        THEN \* unique_seller_product rejects the INSERT
             Raise(p, "IntegrityError") /\ UNCHANGED products_for_sale
        ELSE /\ products_for_sale' = Put(products_for_sale, k,
                   [price |-> r.price, quantity |-> sess[p].p_quantity,
                    availability |-> sess[p].p_availability])
             /\ out' = [out EXCEPT ![p] = [NoOut EXCEPT !.status = "ok"]]
             /\ Goto(p, "done")

\* ---- update_product_for_sale (updatePrice / updateAvailability) ----
\* The listing is addressed by its id; a listing is named here by its (seller_id,
\* blanket_id) pair, r.owner being the seller_id of the addressed row.  A field
\* left None (set_price FALSE, availability "") is not written.
UpdateProductFrom(p, users, owners, availabilities) ==
  \E u \in users, o \in owners, b \in KnownBlankets, sp \in BOOLEAN, pr \in NewPrices,
     a \in availabilities :
    Begin(p, [NoReq EXCEPT !.op = "update_product_for_sale", !.blanket_id = b,
                           !.seller_name = u, !.user = u, !.owner = o,
                           !.set_price = sp, !.price = IF sp THEN pr ELSE 0,
                           !.availability = a],
          "upd_read")

\* `if data.price is not None: product.price = data.price`, and the same for
\* the availability
UpdatedFieldMut(supplied, value, loaded) == value
UpdatedField(supplied, value, loaded) == IF supplied THEN value ELSE loaded

\* `ProductForSale.id == product_id, ProductForSale.seller_id == seller.id`: the
\* addressed row is found when it exists and is the caller's
OwnListingMut(table, user, owner, blanket_id) == <<owner, blanket_id>> \in DOMAIN table
OwnListing(table, user, owner, blanket_id) ==
  owner = UserId(user) /\ <<owner, blanket_id>> \in DOMAIN table

\* look up the caller, then the listing by id and seller_id
UpdRead(p) ==
  /\ pc[p] = "upd_read"
  /\ UNCHANGED <<store, req, nops>>
  /\ LET r == req[p]
         k == <<r.owner, r.blanket_id>>
     IN IF ~OwnListing(products_for_sale, r.user, r.owner, r.blanket_id)
        THEN Raise(p, "ProductNotFound") /\ UNCHANGED sess
        ELSE /\ sess' = [sess EXCEPT
                   ![p].product_found = TRUE, ![p].price = products_for_sale[k].price,
                   ![p].p_quantity = products_for_sale[k].quantity,
                   ![p].p_availability = products_for_sale[k].availability]
             /\ Goto(p, "upd_commit")
             /\ UNCHANGED out

\* the supplied fields are set on the loaded object and committed; the UPDATE
\* carries the changed columns only, and fails when the row is gone
UpdCommit(p) ==
  /\ pc[p] = "upd_commit"
  /\ UNCHANGED <<blankets, distributor_stock, seller_inventory, distributor_orders,
                 seller_orders, customer_orders, stock_rows, req, sess, nops>>
  /\ LET r == req[p]
         s == sess[p]
         k == <<r.owner, r.blanket_id>>
         pr == UpdatedField(r.set_price, r.price, s.price)
         a == UpdatedField(r.availability # "", r.availability, s.p_availability)
     IN IF pr = s.price /\ a = s.p_availability
        THEN /\ UNCHANGED products_for_sale
             /\ out' = [out EXCEPT ![p] = [NoOut EXCEPT !.status = "ok"]]
        ELSE IF k \notin DOMAIN products_for_sale
        THEN /\ UNCHANGED products_for_sale
             /\ out' = [out EXCEPT ![p] = [NoOut EXCEPT !.status = "error", !.err = "StaleData"]]
        ELSE /\ products_for_sale' = [products_for_sale EXCEPT
                   ![k].price = IF pr # s.price THEN pr ELSE @,
                   ![k].availability = IF a # s.p_availability THEN a ELSE @]
             /\ out' = [out EXCEPT ![p] = [NoOut EXCEPT !.status = "ok"]]
  /\ Goto(p, "done")

\* ---- update_order_status ----
\* A customer order's id is its position in customer_orders (ids are handed out in
\* insertion order and no row is ever deleted).
OrderIds == {1, 2}
Statuses == {"pending", "completed", "confirmed"}

\* `order.status = status`
SetStatusWide(order, status) == [order EXCEPT !.status = status, !.quantity = 0]
SetStatusGuarded(order, status) ==
  IF order.status = "completed" THEN order ELSE [order EXCEPT !.status = status]
SetStatus(order, status) == [order EXCEPT !.status = status]

UpdateStatusFrom(p, ids, statuses) ==
  \E i \in ids, st \in statuses :
    Begin(p, [NoReq EXCEPT !.op = "update_order_status", !.order_id = i, !.status = st],
          "uos_read")

\* look the order up by id; None (a 404 from the controller) when there is none
UosRead(p) ==
  /\ pc[p] = "uos_read"
  /\ UNCHANGED <<store, req, nops>>
  /\ IF req[p].order_id \notin 1..Len(customer_orders)
     THEN Raise(p, "OrderNotFound") /\ UNCHANGED sess
     ELSE /\ sess' = [sess EXCEPT ![p].status = customer_orders[req[p].order_id].status]
          /\ Goto(p, "uos_commit")
          /\ UNCHANGED out

\* the status is set on the loaded order and committed (an UPDATE of the status
\* column when it changed)
UosCommit(p) ==
  /\ pc[p] = "uos_commit"
  /\ UNCHANGED <<blankets, distributor_stock, seller_inventory, products_for_sale,
                 distributor_orders, seller_orders, stock_rows, req, sess, nops>>
  /\ LET r == req[p]
         loaded == [customer_orders[r.order_id] EXCEPT !.status = sess[p].status]
         new == SetStatus(loaded, r.status)
     IN customer_orders' = IF new = loaded THEN customer_orders
                           ELSE [customer_orders EXCEPT ![r.order_id] =
                                   [f \in DOMAIN @ |-> IF new[f] # loaded[f] THEN new[f] ELSE @[f]]]
  /\ out' = [out EXCEPT ![p] = [NoOut EXCEPT !.status = "ok"]]
  /\ Goto(p, "done")

\* ---- the three availability checks ----
Checks == {"check_stock_availability", "check_distributor_stock_availability",
           "check_seller_inventory_availability"}

\* the dict a check returns, from the row it found (or none) and the required quantity
CheckResultMut(found, quantity, required) ==
  [available |-> found /\ quantity > required,
   current_stock |-> IF found THEN quantity ELSE 0]
CheckResult(found, quantity, required) ==
  [available |-> found /\ quantity >= required,
   current_stock |-> IF found THEN quantity ELSE 0]

StartCheck(p) ==
  /\ nops < MaxOps
  /\ \/ \E b \in BlanketIds, q \in Qty :
          Begin(p, [NoReq EXCEPT !.op = "check_stock_availability", !.blanket_id = b,
                                 !.quantity = q],
                "chk_read")
     \/ \E b \in KnownBlankets, q \in Qty, d \in Names :
          Begin(p, [NoReq EXCEPT !.op = "check_distributor_stock_availability",
                                 !.blanket_id = b, !.quantity = q, !.distributor_name = d],
                "chk_read")
     \/ \E b \in KnownBlankets, q \in Qty, s \in Names :
          Begin(p, [NoReq EXCEPT !.op = "check_seller_inventory_availability",
                                 !.blanket_id = b, !.quantity = q, !.seller_name = s],
                "chk_read")

\* one SELECT and the returned dict; nothing is added to the session
ChkRead(p) ==
  /\ pc[p] = "chk_read"
  /\ UNCHANGED <<store, req, sess, nops>>
  /\ LET r == req[p]
         res == IF r.op = "check_stock_availability"
                THEN CheckResult(r.blanket_id \in DOMAIN blankets,
                                 QuantityOf(blankets, r.blanket_id), r.quantity)
                ELSE IF r.op = "check_distributor_stock_availability"
                THEN CheckResult(<<r.distributor_name, r.blanket_id>> \in DOMAIN distributor_stock,
                                 QuantityOf(distributor_stock, <<r.distributor_name, r.blanket_id>>),
                                 r.quantity)
                ELSE CheckResult(<<r.seller_name, r.blanket_id>> \in DOMAIN seller_inventory,
                                 QuantityOf(seller_inventory, <<r.seller_name, r.blanket_id>>),
                                 r.quantity)
     IN out' = [out EXCEPT ![p] = [NoOut EXCEPT !.status = "ok",
                                                !.available = res.available,
                                                !.current_stock = res.current_stock]]
  /\ Goto(p, "done")

\* ---- requests served one at a time, with every kind of argument ----
StartDistributorOrder(p) ==
  nops < MaxOps /\ DistributorOrderFrom(p, BlanketIds, UserNames, UserNames)

StartSellerOrder(p) == nops < MaxOps /\ SellerOrderFrom(p, Names, Names)

StartCustomerPurchase(p) ==
  nops < MaxOps
    /\ CustomerPurchaseFrom(p, Names, UserNames \cup {NoUser}, ProvidedTotals \cup {NoTotal})

StartStockRequest(p) == nops < MaxOps /\ StockRequestFrom(p, UserNames)

StartPublish(p) == nops < MaxOps /\ PublishFrom(p, UserNames)

StartUpdateProduct(p) ==
  nops < MaxOps /\ UpdateProductFrom(p, UserNames, {UserId(n) : n \in UserNames},
                                     {"", IN_STOCK, OUT_OF_STOCK})

TransferSteps(p) ==
  \/ PdoCheck(p)
  \/ PdoDest(p)
  \/ PdoCommit(p)
  \/ PdoRefresh(p)
  \/ PsoCheck(p)
  \/ PsoDest(p)
  \/ PsoCommit(p)
  \/ PsoRefresh(p)
  \/ CpListing(p)
  \/ PcoCheck(p)
  \/ PcoTotal(p)
  \/ PcoCommit(p)
  \/ PcoRefresh(p)
  \/ SyncRead(p)
  \/ SyncCommit(p)
  \/ PublishCheck(p)
  \/ PublishCommit(p)
  \/ UpdRead(p)
  \/ UpdCommit(p)
  \/ CloseSession(p)

Handlers(p) ==
  \/ StartDistributorOrder(p)
  \/ StartSellerOrder(p)
  \/ StartCustomerPurchase(p)
  \/ StartStockRequest(p)
  \/ StartPublish(p)
  \/ StartUpdateProduct(p)
  \/ StartCheck(p)
  \/ ChkRead(p)
  \/ RsdRead(p)
  \/ RsdCommit(p)
  \/ RsdRefresh(p)
  \/ TransferSteps(p)

Next == \E p \in Seq1Procs : Handlers(p)

Spec == Init /\ [][Next]_vars

\* ---- two requests, served by two workers that may overlap, each sent by the
\* user it concerns ----
ConcDistributorOrder(p) ==
  nops < Cardinality(Procs) /\ DistributorOrderFrom(p, KnownBlankets, {"D1"}, {"D1"})

ConcSellerOrder(p) == nops < Cardinality(Procs) /\ SellerOrderFrom(p, {"D1"}, {"S1"})

ConcCustomerPurchase(p) ==
  nops < Cardinality(Procs) /\ CustomerPurchaseFrom(p, {"S1"}, UserNames, {NoTotal})

ConcPublish(p) == nops < Cardinality(Procs) /\ PublishFrom(p, {"S1"})

ConcUpdateProduct(p) ==
  nops < Cardinality(Procs)
    /\ UpdateProductFrom(p, {"S1"}, {UserId("S1")}, {IN_STOCK, OUT_OF_STOCK})

ConcUpdateStatus(p) == nops < Cardinality(Procs) /\ UpdateStatusFrom(p, OrderIds, Statuses)

NextConc ==
  \E p \in Procs :
    \/ ConcDistributorOrder(p)
    \/ ConcSellerOrder(p)
    \/ ConcCustomerPurchase(p)
    \/ ConcPublish(p)
    \/ ConcUpdateProduct(p)
    \/ ConcUpdateStatus(p)
    \/ UosRead(p)
    \/ UosCommit(p)
    \/ TransferSteps(p)

SpecConc == Init /\ [][NextConc]_vars

\* ---- a chain run from a full producer: 100 units of blanket 1 and nothing else,
\* requests served one at a time, quantities of 20, 30 and 50, a price of 5.00 ----
ScenarioOps == 5
ScenarioQty == {20, 30, 50}
ScenarioPrices == {500}

ScenarioInit ==
  /\ blankets = [b \in KnownBlankets |-> 100]
  /\ distributor_stock = <<>>
  /\ seller_inventory = <<>>
  /\ products_for_sale = <<>>
  /\ distributor_orders = <<>>
  /\ seller_orders = <<>>
  /\ customer_orders = <<>>
  /\ stock_rows = [distributor |-> <<>>, seller |-> <<>>]
  /\ pc = [p \in Procs |-> "idle"]
  /\ req = [p \in Procs |-> NoReq]
  /\ sess = [p \in Procs |-> NoSess]
  /\ out = [p \in Procs |-> NoOut]
  /\ nops = 0

ScenarioDistributorOrder(p) ==
  /\ nops < ScenarioOps
  /\ \E b \in KnownBlankets, q \in ScenarioQty :
       Begin(p, [NoReq EXCEPT !.op = "process_distributor_order", !.blanket_id = b,
                              !.quantity = q, !.distributor_name = "D1", !.user = "D1"],
             "pdo_check")

ScenarioSellerOrder(p) ==
  /\ nops < ScenarioOps
  /\ \E b \in KnownBlankets, q \in ScenarioQty :
       Begin(p, [NoReq EXCEPT !.op = "process_seller_order", !.blanket_id = b,
                              !.quantity = q, !.distributor_name = "D1",
                              !.seller_name = "S1"],
             "pso_check")

ScenarioPublish(p) ==
  /\ nops < ScenarioOps
  /\ \E b \in KnownBlankets, pr \in ScenarioPrices :
       Begin(p, [NoReq EXCEPT !.op = "create_product_for_sale", !.blanket_id = b,
                              !.seller_name = "S1", !.user = "S1", !.price = pr],
             "publish_check")

ScenarioPurchase(p) ==
  /\ nops < ScenarioOps
  /\ \E b \in KnownBlankets, q \in ScenarioQty, c \in CustomerNames, u \in UserNames :
       Begin(p, [NoReq EXCEPT !.op = "customer_purchase", !.blanket_id = b, !.quantity = q,
                              !.seller_name = "S1", !.customer_name = c, !.user = u],
             "cp_listing")

ScenarioNext ==
  \E p \in Seq1Procs :
    \/ ScenarioDistributorOrder(p)
    \/ ScenarioSellerOrder(p)
    \/ ScenarioPublish(p)
    \/ ScenarioPurchase(p)
    \/ PdoCheck(p)
    \/ PdoDest(p)
    \/ PdoCommit(p)
    \/ PdoRefresh(p)
    \/ PsoCheck(p)
    \/ PsoDest(p)
    \/ PsoCommit(p)
    \/ PsoRefresh(p)
    \/ CpListing(p)
    \/ PcoCheck(p)
    \/ PcoTotal(p)
    \/ PcoCommit(p)
    \/ PcoRefresh(p)
    \/ SyncRead(p)
    \/ SyncCommit(p)
    \/ PublishCheck(p)
    \/ PublishCommit(p)
    \/ CloseSession(p)

SpecScenario == ScenarioInit /\ [][ScenarioNext]_vars

\* ---- two overlapping transfers, each handler run to its end ----
\* A handler runs on a worker thread of its own and executes its statements one
\* after the other; the database performs each statement or fails it, so a step
\* that can be taken is taken.
LiveQty == {q \in Qty : q > 0}

LiveDistributorOrder(p) ==
  /\ nops < Cardinality(Procs)
  /\ \E b \in KnownBlankets, q \in LiveQty :
       Begin(p, [NoReq EXCEPT !.op = "process_distributor_order", !.blanket_id = b,
                              !.quantity = q, !.distributor_name = "D1", !.user = "D1"],
             "pdo_check")

LiveSellerOrder(p) ==
  /\ nops < Cardinality(Procs)
  /\ \E b \in KnownBlankets, q \in LiveQty :
       Begin(p, [NoReq EXCEPT !.op = "process_seller_order", !.blanket_id = b,
                              !.quantity = q, !.distributor_name = "D1",
                              !.seller_name = "S1"],
             "pso_check")

LivePurchase(p) ==
  /\ nops < Cardinality(Procs)
  /\ \E b \in KnownBlankets, q \in LiveQty, c \in CustomerNames :
       Begin(p, [NoReq EXCEPT !.op = "customer_purchase", !.blanket_id = b, !.quantity = q,
                              !.seller_name = "S1", !.customer_name = c, !.user = "S1"],
             "cp_listing")

RunningSteps(p) ==
  \/ PdoCheck(p)
  \/ PdoDest(p)
  \/ PdoCommit(p)
  \/ PdoRefresh(p)
  \/ PsoCheck(p)
  \/ PsoDest(p)
  \/ PsoCommit(p)
  \/ PsoRefresh(p)
  \/ CpListing(p)
  \/ PcoCheck(p)
  \/ PcoTotal(p)
  \/ PcoCommit(p)
  \/ PcoRefresh(p)
  \/ SyncRead(p)
  \/ SyncCommit(p)

NextLive ==
  \E p \in Procs :
    \/ LiveDistributorOrder(p)
    \/ LiveSellerOrder(p)
    \/ LivePurchase(p)
    \/ RunningSteps(p)
    \/ CloseSession(p)

SpecLive == Init /\ [][NextLive]_vars /\ \A p \in Procs : WF_vars(RunningSteps(p))

\* ---- two overlapping transfers on well-stocked rows: every tier holds enough for
\* both, the rows and the listing exist ----
RaceInit ==
  /\ blankets = [b \in KnownBlankets |-> 100]
  /\ distributor_stock = [k \in {<<"D1", 1>>} |-> 50]
  /\ seller_inventory = [k \in {<<"S1", 1>>} |-> 50]
  /\ products_for_sale = [k \in {<<UserId("S1"), 1>>} |->
                            [price |-> 500, quantity |-> 50,
                             availability |-> InitialAvailability(50)]]
  /\ distributor_orders = <<>>
  /\ seller_orders = <<>>
  /\ customer_orders = <<>>
  /\ stock_rows = [distributor |-> [k \in DOMAIN distributor_stock |-> 1],
                   seller |-> [k \in DOMAIN seller_inventory |-> 1]]
  /\ pc = [p \in Procs |-> "idle"]
  /\ req = [p \in Procs |-> NoReq]
  /\ sess = [p \in Procs |-> NoSess]
  /\ out = [p \in Procs |-> NoOut]
  /\ nops = 0

RaceDistributorOrder(p) ==
  /\ nops < Cardinality(Procs)
  /\ \E b \in KnownBlankets, q \in ScenarioQty :
       Begin(p, [NoReq EXCEPT !.op = "process_distributor_order", !.blanket_id = b,
                              !.quantity = q, !.distributor_name = "D1", !.user = "D1"],
             "pdo_check")

RaceSellerOrder(p) ==
  /\ nops < Cardinality(Procs)
  /\ \E b \in KnownBlankets, q \in ScenarioQty :
       Begin(p, [NoReq EXCEPT !.op = "process_seller_order", !.blanket_id = b,
                              !.quantity = q, !.distributor_name = "D1",
                              !.seller_name = "S1"],
             "pso_check")

RacePurchase(p) ==
  /\ nops < Cardinality(Procs)
  /\ \E b \in KnownBlankets, q \in ScenarioQty, c \in CustomerNames :
       Begin(p, [NoReq EXCEPT !.op = "customer_purchase", !.blanket_id = b, !.quantity = q,
                              !.seller_name = "S1", !.customer_name = c, !.user = "S1"],
             "cp_listing")

NextRace ==
  \E p \in Procs :
    \/ RaceDistributorOrder(p)
    \/ RaceSellerOrder(p)
    \/ RacePurchase(p)
    \/ RunningSteps(p)
    \/ CloseSession(p)

SpecRace == RaceInit /\ [][NextRace]_vars

\* ---- place_order: a distributor's order to the manufacturer ----
PlaceOrderFrom(p, users) ==
  \E b \in KnownBlankets, q \in Qty, u \in users :
    Begin(p, [NoReq EXCEPT !.op = "place_order", !.blanket_id = b, !.quantity = q,
                           !.user = u],
          "po_commit")

\* db.add(order); db.commit(); the order is read back for the response
PoCommit(p) ==
  /\ pc[p] = "po_commit"
  /\ UNCHANGED <<blankets, distributor_stock, seller_inventory, products_for_sale,
                 seller_orders, customer_orders, stock_rows, req, sess, nops>>
  /\ distributor_orders' = AddOrder(distributor_orders,
         [distributor_id |-> UserId(req[p].user), blanket_id |-> req[p].blanket_id,
          quantity |-> req[p].quantity])
  /\ out' = [out EXCEPT ![p] = [NoOut EXCEPT !.status = "ok",
                                             !.order_id = Len(distributor_orders) + 1]]
  /\ Goto(p, "done")

\* ---- place_customer_order ----
PlaceCustomerOrderFrom(p, sellers, users) ==
  \E b \in KnownBlankets, q \in Qty, s \in sellers, c \in CustomerNames, u \in users :
    Begin(p, [NoReq EXCEPT !.op = "place_customer_order", !.blanket_id = b,
                           !.quantity = q, !.seller_name = s, !.customer_name = c,
                           !.user = u],
          "plc_commit")

\* the status is chosen from the caller's role, the order is added and committed
PlcCommit(p) ==
  /\ pc[p] = "plc_commit"
  /\ UNCHANGED <<blankets, distributor_stock, seller_inventory, products_for_sale,
                 distributor_orders, seller_orders, stock_rows, req, sess, nops>>
  /\ LET r == req[p] IN
       customer_orders' = AddOrder(customer_orders,
         [customer_name |-> r.customer_name, seller_name |-> r.seller_name,
          blanket_id |-> r.blanket_id, quantity |-> r.quantity,
          status |-> OrderStatus(UserRole(r.user)), has_value |-> FALSE,
          total_value |-> 0])
  /\ out' = [out EXCEPT ![p] = [NoOut EXCEPT !.status = "ok",
                                             !.order_id = Len(customer_orders) + 1]]
  /\ Goto(p, "done")

\* ---- delete_product_for_sale ----
\* The listing is addressed as in update_product_for_sale: r.owner is the seller_id
\* of the row with the given product id.
DeleteProductFrom(p, users, owners) ==
  \E u \in users, o \in owners, b \in KnownBlankets :
    Begin(p, [NoReq EXCEPT !.op = "delete_product_for_sale", !.blanket_id = b,
                           !.seller_name = u, !.user = u, !.owner = o],
          "del_read")

\* look up the caller, then the listing by id and seller_id
DelRead(p) ==
  /\ pc[p] = "del_read"
  /\ UNCHANGED <<store, req, nops>>
  /\ LET r == req[p] IN
     IF ~OwnListing(products_for_sale, r.user, r.owner, r.blanket_id)
     THEN Raise(p, "ProductNotFound") /\ UNCHANGED sess
     ELSE /\ sess' = [sess EXCEPT ![p].product_found = TRUE]
          /\ Goto(p, "del_commit")
          /\ UNCHANGED out

\* the table after the DELETE of one row
DeletedMut(table, key) == table
Deleted(table, key) == [j \in DOMAIN table \ {key} |-> table[j]]

\* db.delete(product); db.commit(): the DELETE of the loaded row
DelCommit(p) ==
  /\ pc[p] = "del_commit"
  /\ UNCHANGED <<blankets, distributor_stock, seller_inventory, distributor_orders,
                 seller_orders, customer_orders, stock_rows, req, sess, nops>>
  /\ products_for_sale' = Deleted(products_for_sale, <<req[p].owner, req[p].blanket_id>>)
  /\ out' = [out EXCEPT ![p] = [NoOut EXCEPT !.status = "ok"]]
  /\ Goto(p, "done")

\* ---- a published pair that sells out and is restocked: the stocked chain of
\* RaceInit, seller orders and purchases served one after the other ----
NextCycle ==
  \E p \in Seq1Procs :
    \/ ScenarioSellerOrder(p)
    \/ ScenarioPurchase(p)
    \/ PsoCheck(p)
    \/ PsoDest(p)
    \/ PsoCommit(p)
    \/ PsoRefresh(p)
    \/ CpListing(p)
    \/ PcoCheck(p)
    \/ PcoTotal(p)
    \/ PcoCommit(p)
    \/ PcoRefresh(p)
    \/ SyncRead(p)
    \/ SyncCommit(p)
    \/ CloseSession(p)

SpecCycle == RaceInit /\ [][NextCycle]_vars

\* ---- the seller's desk: a published pair, two requests served one after the
\* other, the services no route reaches included ----
ServicesInit == Init /\ products_for_sale # <<>>

SvcPlaceOrder(p) == nops < Cardinality(Procs) /\ PlaceOrderFrom(p, UserNames)

SvcPlaceCustomerOrder(p) ==
  nops < Cardinality(Procs) /\ PlaceCustomerOrderFrom(p, {"S1"}, UserNames \cup {NoUser})

SvcUpdateProduct(p) ==
  nops < Cardinality(Procs)
    /\ UpdateProductFrom(p, UserNames, {UserId(n) : n \in UserNames}, {"", OUT_OF_STOCK})

SvcDeleteProduct(p) ==
  nops < Cardinality(Procs)
    /\ DeleteProductFrom(p, UserNames, {UserId(n) : n \in UserNames})

NextServices ==
  \E p \in Seq1Procs :
    \/ ConcDistributorOrder(p)
    \/ ConcSellerOrder(p)
    \/ ConcCustomerPurchase(p)
    \/ ConcPublish(p)
    \/ SvcPlaceOrder(p)
    \/ SvcPlaceCustomerOrder(p)
    \/ SvcUpdateProduct(p)
    \/ SvcDeleteProduct(p)
    \/ PoCommit(p)
    \/ PlcCommit(p)
    \/ DelRead(p)
    \/ DelCommit(p)
    \/ TransferSteps(p)

SpecServices == ServicesInit /\ [][NextServices]_vars

\* ======================= properties =======================
Transfers == {"process_distributor_order", "process_seller_order", "customer_purchase"}

\* the stock row a transfer debits
SourceOf(r) ==
  IF r.op = "process_distributor_order" THEN <<"blankets", "", r.blanket_id>>
  ELSE IF r.op = "process_seller_order" THEN <<"distributor_stock", r.distributor_name, r.blanket_id>>
  ELSE <<"seller_inventory", r.seller_name, r.blanket_id>>

Succeeded(p) == pc[p] = "done" /\ out[p].status = "ok"

Failed(p, e) == pc[p] = "done" /\ out[p].status = "error" /\ out[p].err = e

\* two finished transfers that both read their common source while it held S units,
\* each asking for no more than S and together for more than S
Contend(p, r) ==
  /\ p # r
  /\ pc[p] = "done" /\ pc[r] = "done"
  /\ req[p].op \in Transfers /\ req[r].op = req[p].op
  /\ SourceOf(req[p]) = SourceOf(req[r])
  /\ sess[p].src = sess[r].src
  /\ req[p].quantity <= sess[p].src /\ req[r].quantity <= sess[r].src
  /\ req[p].quantity + req[r].quantity > sess[p].src

\* C1: of two concurrent transfers that together ask for more than their common
\* source holds, exactly one succeeds and the other is refused; they never both
\* succeed.
C1_ExactlyOneSucceeds ==
  \A p \in Procs, r \in Procs :
    Contend(p, r) =>
      /\ ~(Succeeded(p) /\ Succeeded(r))
      /\ Succeeded(p) => out[r].status = "error"

\* C2: no stock quantity is ever below zero.
C2_NonNegative ==
  /\ \A b \in DOMAIN blankets : blankets[b] >= 0
  /\ \A k \in DOMAIN distributor_stock : distributor_stock[k] >= 0
  /\ \A k \in DOMAIN seller_inventory : seller_inventory[k] >= 0

\* ---- a single transfer's effect ----
Stepped(p) == pc'[p] # pc[p]

\* W3: a committed manufacturer -> distributor transfer that created the
\* distributor's row
C3_Witness ==
  \E p \in Procs : /\ pc[p] = "pdo_refresh"
                   /\ req[p].quantity > 0
                   /\ ~sess[p].dst_found

\* C3: a committing manufacturer -> distributor or distributor -> seller transfer of
\* q takes q off the source, adds q to the destination (0 before when the row did
\* not exist) and leaves the sum of the two as it was.
C3_Conservation ==
  [][\A p \in Procs :
       /\ (pc[p] = "pdo_commit" /\ pc'[p] = "pdo_refresh") =>
            LET r == req[p]
                k == <<r.distributor_name, r.blanket_id>>
            IN /\ blankets'[r.blanket_id] = blankets[r.blanket_id] - r.quantity
               /\ distributor_stock'[k] = QuantityOf(distributor_stock, k) + r.quantity
               /\ blankets'[r.blanket_id] + distributor_stock'[k]
                    = blankets[r.blanket_id] + QuantityOf(distributor_stock, k)
       /\ (pc[p] = "pso_commit" /\ pc'[p] = "pso_refresh") =>
            LET r == req[p]
                ks == <<r.distributor_name, r.blanket_id>>
                kd == <<r.seller_name, r.blanket_id>>
            IN /\ distributor_stock'[ks] = distributor_stock[ks] - r.quantity
               /\ seller_inventory'[kd] = QuantityOf(seller_inventory, kd) + r.quantity
               /\ distributor_stock'[ks] + seller_inventory'[kd]
                    = distributor_stock[ks] + QuantityOf(seller_inventory, kd)
  ]_vars

\* the steps a handler takes before its commit
BeforeCommit == {"pdo_check", "pdo_dest", "pso_check", "pso_dest",
                 "cp_listing", "pco_check", "pco_total"}

\* the quantity a transfer finds in its source row when it checks it
Available(p) ==
  IF pc[p] = "pdo_check" THEN QuantityOf(blankets, req[p].blanket_id)
  ELSE IF pc[p] = "pso_check"
  THEN QuantityOf(distributor_stock, <<req[p].distributor_name, req[p].blanket_id>>)
  ELSE QuantityOf(seller_inventory, <<req[p].seller_name, req[p].blanket_id>>)

SourceRowExists(p) ==
  IF pc[p] = "pdo_check" THEN req[p].blanket_id \in DOMAIN blankets
  ELSE IF pc[p] = "pso_check"
  THEN /\ req[p].seller_name \in UserNames
       /\ req[p].distributor_name \in UserNames
       /\ <<req[p].distributor_name, req[p].blanket_id>> \in DOMAIN distributor_stock
  ELSE <<req[p].seller_name, req[p].blanket_id>> \in DOMAIN seller_inventory

\* W4: a purchase refused by the service because the seller's row holds less than
\* was asked
C4_Witness ==
  \E p \in Procs : /\ Failed(p, "InsufficientStock")
                   /\ req[p].op = "customer_purchase"
                   /\ req[p].quantity > sess[p].src

\* C4: a transfer that asks for more than its source row holds when it checks it
\* is refused with InsufficientStock, and no step it took changed a stock row, a
\* listing or a journal.
C4_OverdraftRefused ==
  [][\A p \in Procs :
       /\ (pc[p] \in {"pdo_check", "pso_check", "pco_check"} /\ Stepped(p)
           /\ SourceRowExists(p) /\ req[p].quantity > Available(p))
            => /\ pc'[p] = "done"
               /\ out'[p].status = "error"
               /\ out'[p].err = "InsufficientStock"
       /\ (pc[p] \in BeforeCommit /\ Stepped(p)) => store' = store
  ]_vars

\* ---- the listing projection ----
\* C5: once a distributor -> seller or seller -> customer transfer has succeeded
\* for a pair that has a listing, the listing's quantity is the seller's stock
\* quantity and its availability is OutOfStock exactly when that quantity is 0.
C5_ProjectionConsistent ==
  \A p \in Procs :
    LET r == req[p]
        l == ListingOf(products_for_sale, r.seller_name, r.blanket_id)
    IN (Succeeded(p) /\ r.op \in {"process_seller_order", "customer_purchase"} /\ l.found)
         => /\ l.quantity = seller_inventory[<<r.seller_name, r.blanket_id>>]
            /\ (l.availability = OUT_OF_STOCK <=> l.quantity = 0)

\* ---- the purchase ----
\* C6: a purchase refused with TotalMismatch was refused before any mutation: the
\* seller's quantity is debited neither in the stored row nor in the session's
\* pending state; and it is refused only when the supplied total is more than the
\* tolerance away from price * quantity.  (Stated for purchases of a positive
\* quantity.)
C6_MismatchBeforeMutation ==
  \A p \in Procs :
    (Failed(p, "TotalMismatch") /\ req[p].quantity > 0) =>
      LET r == req[p]
          l == ListingOf(products_for_sale, r.seller_name, r.blanket_id)
      IN /\ seller_inventory[<<r.seller_name, r.blanket_id>>] = sess[p].src
         /\ sess[p].src_new = sess[p].src
         /\ Abs(r.total - l.price * r.quantity) > TotalTolerance

\* W7: a purchase refused for want of a listing though the seller held the stock
C7_Witness ==
  \E p \in Procs :
    /\ Failed(p, "NotPublished")
    /\ <<req[p].seller_name, req[p].blanket_id>> \in DOMAIN seller_inventory
    /\ req[p].quantity > 0
    /\ seller_inventory[<<req[p].seller_name, req[p].blanket_id>>] >= req[p].quantity

\* C7: a purchase for a pair without a listing is refused with NotPublished and
\* changes nothing.
C7_NotPublished ==
  [][\A p \in Procs :
       (/\ pc[p] = "cp_listing" /\ Stepped(p)
        /\ ~ListingOf(products_for_sale, req[p].seller_name, req[p].blanket_id).found)
         => /\ pc'[p] = "done"
            /\ out'[p].status = "error"
            /\ out'[p].err = "NotPublished"
            /\ store' = store
  ]_vars

\* W8: a purchase refused as OutOfStock from a listing that also holds less than
\* was asked
C8_Witness ==
  \E p \in Procs :
    LET l == ListingOf(products_for_sale, req[p].seller_name, req[p].blanket_id)
    IN /\ Failed(p, "OutOfStock")
       /\ l.found
       /\ l.quantity < req[p].quantity

\* C8: against an existing listing a purchase is refused with OutOfStock when the
\* listing is OutOfStock, whatever its quantity, and otherwise with
\* InsufficientQuantity when the listing holds less than was asked; either way
\* nothing changes.
C8_ListingRefusals ==
  [][\A p \in Procs :
       LET l == ListingOf(products_for_sale, req[p].seller_name, req[p].blanket_id)
       IN (pc[p] = "cp_listing" /\ Stepped(p) /\ l.found) =>
            /\ l.availability = OUT_OF_STOCK
                 => /\ pc'[p] = "done"
                    /\ out'[p].status = "error"
                    /\ out'[p].err = "OutOfStock"
                    /\ store' = store
            /\ (l.availability # OUT_OF_STOCK /\ l.quantity < req[p].quantity)
                 => /\ pc'[p] = "done"
                    /\ out'[p].status = "error"
                    /\ out'[p].err = "InsufficientQuantity"
                    /\ store' = store
  ]_vars

\* W9: a successful purchase whose caller supplied a total other than the computed one
C9_Witness ==
  \E p \in Procs :
    /\ Succeeded(p)
    /\ req[p].op = "customer_purchase"
    /\ req[p].has_total
    /\ req[p].total # out[p].total_value

\* C9: the order a purchase appends stores the listing's price times the quantity,
\* and the purchase returns that value.
C9_ComputedTotal ==
  \A p \in Procs :
    (/\ req[p].op = "customer_purchase"
     /\ \/ pc[p] \in {"pco_refresh", "sync_read", "sync_commit"}
        \/ Succeeded(p))
      => LET r == req[p]
             l == ListingOf(products_for_sale, r.seller_name, r.blanket_id)
             o == customer_orders[Len(customer_orders)]
         IN /\ l.found
            /\ o.has_value
            /\ o.total_value = l.price * r.quantity
            /\ Succeeded(p) => (out[p].has_value /\ out[p].total_value = o.total_value)

\* ---- stock in the whole chain ----
RECURSIVE SumOver(_, _)
SumOver(table, keys) ==
  IF keys = {} THEN 0
  ELSE LET k == CHOOSE x \in keys : TRUE
       IN table[k] + SumOver(table, keys \ {k})

RECURSIVE SumQuantities(_)
SumQuantities(orders) ==
  IF orders = <<>> THEN 0
  ELSE orders[1].quantity + SumQuantities(Tail(orders))

TotalStock ==
  SumOver(blankets, DOMAIN blankets)
    + SumOver(distributor_stock, DOMAIN distributor_stock)
    + SumOver(seller_inventory, DOMAIN seller_inventory)
    + SumQuantities(customer_orders)

\* C10: no service operation creates or destroys stock: producer stock plus all
\* distributor stock plus all seller stock plus the quantities of the customer
\* orders stays constant.  (Stated for calls whose quantity is not negative.)
C10_StockConserved ==
  [][(\A p \in Procs : req[p].quantity >= 0) => TotalStock' = TotalStock]_vars

\* ---- resync failures ----
\* W11: a distributor -> seller transfer of a positive quantity that succeeded for a
\* seller without a listing
C11_Witness ==
  \E p \in Procs :
    /\ Succeeded(p)
    /\ req[p].op = "process_seller_order"
    /\ req[p].quantity > 0
    /\ ~ListingOf(products_for_sale, req[p].seller_name, req[p].blanket_id).found
    /\ seller_orders # <<>>

\* C11: when the resync of a distributor -> seller transfer finds no listing, the
\* call ends with a success result, and the committed debit, credit and seller
\* order stay as the transfer wrote them.
C11_ResyncSwallowed ==
  [][\A p \in Procs :
       LET r == req[p]
           ks == <<r.distributor_name, r.blanket_id>>
           kd == <<r.seller_name, r.blanket_id>>
       IN (/\ pc[p] = "sync_read" /\ Stepped(p)
           /\ r.op = "process_seller_order"
           /\ ~ListingOf(products_for_sale, r.seller_name, r.blanket_id).found)
            => /\ pc'[p] = "done"
               /\ out'[p].status = "ok"
               /\ out'[p].processed_quantity = r.quantity
               /\ store' = store
               /\ distributor_stock'[ks] = sess[p].src_new
               /\ seller_inventory'[kd] = sess[p].dst_new
               /\ seller_orders'[Len(seller_orders')] =
                    [seller_id |-> UserId(r.seller_name),
                     distributor_id |-> UserId(r.distributor_name),
                     blanket_id |-> r.blanket_id, quantity |-> r.quantity]
  ]_vars

\* ---- publish ----
\* W12: a listing published while the seller's stock was 0
C12_Witness ==
  \E p \in Procs :
    LET l == ListingOf(products_for_sale, req[p].seller_name, req[p].blanket_id)
    IN /\ Succeeded(p)
       /\ req[p].op = "create_product_for_sale"
       /\ l.found
       /\ l.quantity = 0
       /\ l.availability = OUT_OF_STOCK

\* C12: publish is refused with NoInventory when the seller has no stock row and
\* with AlreadyPublished when the pair has a listing, creating nothing; when it
\* succeeds the new listing carries the seller's stock quantity, InStock when that
\* is above 0 and OutOfStock when it is 0.
C12_Publish ==
  [][\A p \in Procs :
       LET r == req[p]
           ki == <<r.seller_name, r.blanket_id>>
           kl == <<UserId(r.seller_name), r.blanket_id>>
       IN /\ (pc[p] = "publish_check" /\ Stepped(p) /\ ki \notin DOMAIN seller_inventory)
             => /\ pc'[p] = "done"
                /\ out'[p].status = "error"
                /\ out'[p].err = "NoInventory"
          /\ (/\ pc[p] = "publish_check" /\ Stepped(p)
              /\ ki \in DOMAIN seller_inventory
              /\ kl \in DOMAIN products_for_sale)
             => /\ pc'[p] = "done"
                /\ out'[p].status = "error"
                /\ out'[p].err = "AlreadyPublished"
          /\ (pc[p] = "publish_check" /\ Stepped(p)) => store' = store
          /\ (pc[p] = "publish_commit" /\ Stepped(p) /\ out'[p].status = "error")
             => store' = store
          /\ (pc[p] = "publish_commit" /\ Stepped(p) /\ out'[p].status = "ok")
             => /\ kl \notin DOMAIN products_for_sale
                /\ kl \in DOMAIN products_for_sale'
                /\ products_for_sale'[kl].quantity = seller_inventory[ki]
                /\ seller_inventory[ki] > 0 => products_for_sale'[kl].availability = IN_STOCK
                /\ seller_inventory[ki] = 0 => products_for_sale'[kl].availability = OUT_OF_STOCK
                /\ products_for_sale'[kl].price = r.price
  ]_vars

\* ---- manual availability and resync ----
\* C13: a resync that finds a listing OutOfStock at a quantity above 0 (set so by
\* update_product_for_sale) and a seller stock above 0 leaves the listing
\* OutOfStock.  (Stated for the resync of a transfer of a positive quantity that
\* runs while no other request does.)
C13_OverrideKept ==
  [][\A p \in Procs :
       LET r == req[p]
           k == <<UserId(r.seller_name), r.blanket_id>>
       IN (/\ pc[p] = "sync_commit" /\ Stepped(p)
           /\ r.quantity > 0
           /\ \A o \in Procs \ {p} : pc[o] = "idle"
           /\ k \in DOMAIN products_for_sale
           /\ products_for_sale[k].availability = OUT_OF_STOCK
           /\ sess[p].p_availability = OUT_OF_STOCK
           /\ sess[p].p_quantity > 0
           /\ sess[p].inv > 0)
            => products_for_sale'[k].availability = OUT_OF_STOCK
  ]_vars

\* C14: every listing is OutOfStock exactly when its quantity is 0.
C14_AvailabilityMatchesQuantity ==
  \A k \in DOMAIN products_for_sale :
    products_for_sale[k].availability = OUT_OF_STOCK <=> products_for_sale[k].quantity = 0

\* ---- the availability checks ----
\* the row a check looks at
CheckedRowExists(r) ==
  IF r.op = "check_stock_availability" THEN r.blanket_id \in DOMAIN blankets
  ELSE IF r.op = "check_distributor_stock_availability"
  THEN <<r.distributor_name, r.blanket_id>> \in DOMAIN distributor_stock
  ELSE <<r.seller_name, r.blanket_id>> \in DOMAIN seller_inventory

CheckedQuantity(r) ==
  IF r.op = "check_stock_availability" THEN QuantityOf(blankets, r.blanket_id)
  ELSE IF r.op = "check_distributor_stock_availability"
  THEN QuantityOf(distributor_stock, <<r.distributor_name, r.blanket_id>>)
  ELSE QuantityOf(seller_inventory, <<r.seller_name, r.blanket_id>>)

\* W15: a check that asked for exactly what the row holds, and was told it is available
C15_Witness ==
  \E p \in Procs :
    /\ Succeeded(p)
    /\ req[p].op \in Checks
    /\ req[p].quantity > 0
    /\ CheckedRowExists(req[p])
    /\ CheckedQuantity(req[p]) = req[p].quantity
    /\ out[p].available

\* C15: an availability check changes no stock row, listing or journal; it reports
\* available exactly when the row exists and holds at least the required quantity,
\* the row's quantity as current_stock, and current_stock 0 when there is no row.
C15_ChecksReadOnly ==
  [][\A p \in Procs :
       (pc[p] = "chk_read" /\ Stepped(p)) =>
         /\ store' = store
         /\ pc'[p] = "done"
         /\ out'[p].status = "ok"
         /\ out'[p].available
              <=> (CheckedRowExists(req[p]) /\ CheckedQuantity(req[p]) >= req[p].quantity)
         /\ CheckedRowExists(req[p]) => out'[p].current_stock = CheckedQuantity(req[p])
         /\ ~CheckedRowExists(req[p]) => out'[p].current_stock = 0
  ]_vars

\* ---- the order journals ----
journals == <<distributor_orders, seller_orders, customer_orders>>

\* the steps at which a transfer commits
CommitSteps == {"pdo_commit", "pso_commit", "pco_commit"}

\* the steps of a transfer after its commit
AfterCommit == {"pdo_refresh", "pso_refresh", "pco_refresh", "sync_read", "sync_commit"}

\* W16: a purchase of a positive quantity that succeeded and left one customer
\* order and no other journal record
C16_Witness ==
  \E p \in Procs :
    /\ Succeeded(p)
    /\ req[p].op = "customer_purchase"
    /\ req[p].quantity > 0
    /\ Len(customer_orders) = 1
    /\ customer_orders[1].quantity = req[p].quantity
    /\ distributor_orders = <<>>
    /\ seller_orders = <<>>

\* C16: the commit of a transfer appends one record, carrying the transfer's
\* product and quantity, to the journal of its tier and nothing to the other two;
\* no other step of a transfer touches a journal; and a transfer ends in an error
\* only at or before its commit, with no record appended.
C16_OneRecordPerTransfer ==
  [][\A p \in Procs :
       LET r == req[p]
           mine == IF pc[p] = "pdo_commit" THEN distributor_orders
                   ELSE IF pc[p] = "pso_commit" THEN seller_orders
                   ELSE customer_orders
           mine2 == IF pc[p] = "pdo_commit" THEN distributor_orders'
                    ELSE IF pc[p] = "pso_commit" THEN seller_orders'
                    ELSE customer_orders'
       IN (r.op \in Transfers /\ Stepped(p)) =>
            /\ (pc[p] \in CommitSteps /\ pc'[p] # "done")
                 => /\ Len(mine2) = Len(mine) + 1
                    /\ SubSeq(mine2, 1, Len(mine)) = mine
                    /\ mine2[Len(mine2)].blanket_id = r.blanket_id
                    /\ mine2[Len(mine2)].quantity = r.quantity
                    /\ pc[p] # "pdo_commit" => distributor_orders' = distributor_orders
                    /\ pc[p] # "pso_commit" => seller_orders' = seller_orders
                    /\ pc[p] # "pco_commit" => customer_orders' = customer_orders
            /\ (pc[p] \notin CommitSteps \/ pc'[p] = "done") => journals' = journals
            /\ (pc'[p] = "done" /\ out'[p].status = "error") => pc[p] \notin AfterCommit
            /\ (pc'[p] = "done" /\ out'[p].status = "ok") => pc[p] \in AfterCommit
  ]_vars

\* ---- C17 ----
\* the records of old are all still in new, in place, each unchanged
Kept(old, new) ==
  /\ Len(new) >= Len(old)
  /\ \A i \in 1..Len(old) : new[i] = old[i]

\* the same, except that a record's status may differ
KeptButStatus(old, new) ==
  /\ Len(new) >= Len(old)
  /\ \A i \in 1..Len(old) : [new[i] EXCEPT !.status = old[i].status] = old[i]

\* W17: a status update that succeeded on an existing customer order whose status
\* was another one
C17_Witness ==
  \E p \in Procs :
    /\ Succeeded(p)
    /\ req[p].op = "update_order_status"
    /\ sess[p].status # req[p].status
    /\ customer_orders[req[p].order_id].status = req[p].status
    /\ customer_orders[req[p].order_id].quantity > 0

\* C17: the journals are append-only: no step of any operation removes a record or
\* changes the source, destination, product, quantity or total of a record already
\* written; the one thing that may change in an existing record is the status of a
\* customer order.
C17_JournalsAppendOnly ==
  [][/\ Kept(distributor_orders, distributor_orders')
     /\ Kept(seller_orders, seller_orders')
     /\ KeptButStatus(customer_orders, customer_orders')]_vars

\* ---- C18 ----
\* W18: a purchase of a positive quantity sent by a user who is not a seller succeeded
\* and its order is pending
C18_Witness ==
  \E p \in Procs :
    /\ Succeeded(p)
    /\ req[p].op = "customer_purchase"
    /\ req[p].user = "D1"
    /\ req[p].quantity > 0
    /\ Len(customer_orders) = 1
    /\ customer_orders[1].status = "pending"

\* C18: the customer order a purchase writes has status completed when the requester
\* is a seller, and pending when the requester has any other role or when there is no
\* requester; it never has the column default, confirmed.
C18_InitialStatus ==
  [][\A p \in Procs :
       (pc[p] = "pco_commit" /\ Stepped(p) /\ Len(customer_orders') > Len(customer_orders))
         => LET order == customer_orders'[Len(customer_orders')]
            IN /\ req[p].user = "S1" => order.status = "completed"
               /\ req[p].user \in {"D1", NoUser} => order.status = "pending"
               /\ order.status # "confirmed"]_vars

\* ---- C19 ----
\* the stock tables and the listings
stock == <<blankets, distributor_stock, seller_inventory, products_for_sale>>

\* W19: a status update took an existing order from completed back to pending
C19_Witness ==
  \E p \in Procs :
    /\ Succeeded(p)
    /\ req[p].op = "update_order_status"
    /\ sess[p].status = "completed"
    /\ req[p].status = "pending"
    /\ customer_orders[req[p].order_id].status = "pending"

\* C19: a status update of an existing customer order is never refused, whatever the
\* current and the new status; it leaves the order with the requested status and
\* everything else (the order's other fields, the other orders, the stock tables and
\* the listings) as it was, so that a repeat with the same value changes nothing; with
\* an unknown id it reports that there is no such order and changes nothing.  (Stated
\* for an update that no other request's write to the same order falls into.)
C19_StatusUpdate ==
  [][\A p \in Procs :
       LET r == req[p]
           known == r.order_id \in 1..Len(customer_orders)
       IN (r.op = "update_order_status" /\ Stepped(p)) =>
            /\ stock' = stock
            /\ distributor_orders' = distributor_orders
            /\ seller_orders' = seller_orders
            /\ Len(customer_orders') = Len(customer_orders)
            /\ (pc[p] = "uos_read" /\ ~known)
                 => /\ pc'[p] = "done"
                    /\ out'[p].status = "error"
                    /\ out'[p].err = "OrderNotFound"
                    /\ store' = store
            /\ (pc[p] = "uos_read" /\ known) => (pc'[p] = "uos_commit" /\ store' = store)
            /\ pc[p] = "uos_commit"
                 => /\ pc'[p] = "done"
                    /\ out'[p].status = "ok"
                    /\ \A i \in 1..Len(customer_orders) :
                         i # r.order_id => customer_orders'[i] = customer_orders[i]
                    /\ [customer_orders'[r.order_id] EXCEPT !.status = ""]
                         = [customer_orders[r.order_id] EXCEPT !.status = ""]
                    /\ customer_orders[r.order_id].status = sess[p].status
                         => customer_orders'[r.order_id].status = r.status
                    /\ customer_orders[r.order_id].status = r.status => store' = store
  ]_vars

\* ---- C20 ----
\* W20: two transfers each found no row for the pair they credit, the same pair; one
\* committed its row and the other was refused
C20_Witness ==
  \E p, q \in Procs :
    /\ p # q
    /\ req[p].op \in {"process_distributor_order", "process_seller_order"}
    /\ req[q].op = req[p].op
    /\ req[q].blanket_id = req[p].blanket_id
    /\ req[q].distributor_name = req[p].distributor_name
    /\ req[q].seller_name = req[p].seller_name
    /\ req[p].quantity > 0
    /\ req[q].quantity > 0
    /\ ~sess[p].dst_found
    /\ ~sess[q].dst_found
    /\ Succeeded(p)
    /\ Failed(q, "IntegrityError")

\* C20: in every reachable state each stock table holds exactly one row for every
\* pair it has a row for, never two: at most one distributor stock row per
\* (distributor, product) and at most one seller stock row per (seller, product),
\* also when two first credits to the same absent pair run concurrently.
C20_OneRowPerPair ==
  /\ DOMAIN stock_rows.distributor = DOMAIN distributor_stock
  /\ DOMAIN stock_rows.seller = DOMAIN seller_inventory
  /\ \A k \in DOMAIN stock_rows.distributor : stock_rows.distributor[k] = 1
  /\ \A k \in DOMAIN stock_rows.seller : stock_rows.seller[k] = 1

\* ---- C21 ----
\* W21: a distributor -> seller transfer took the whole quantity of the distributor's
\* row, which is still there holding 0, and credited a seller row that held 0
C21_Witness ==
  \E p \in Procs :
    /\ pc[p] = "pso_refresh"
    /\ req[p].quantity > 0
    /\ sess[p].src = req[p].quantity
    /\ <<req[p].distributor_name, req[p].blanket_id>> \in DOMAIN distributor_stock
    /\ distributor_stock[<<req[p].distributor_name, req[p].blanket_id>>] = 0
    /\ sess[p].dst_found
    /\ sess[p].dst = 0
    /\ seller_inventory[<<req[p].seller_name, req[p].blanket_id>>] = req[p].quantity

\* C21: a committing transfer whose destination pair has no stock row creates the row
\* holding the transferred quantity; a row that holds 0 is found and credited like any
\* other; and no step of any operation removes a row from a stock table.
C21_RowLifecycle ==
  [][/\ DOMAIN blankets \subseteq DOMAIN blankets'
     /\ DOMAIN distributor_stock \subseteq DOMAIN distributor_stock'
     /\ DOMAIN seller_inventory \subseteq DOMAIN seller_inventory'
     /\ \A p \in Procs :
          LET r == req[p]
              kd == <<r.distributor_name, r.blanket_id>>
              ks == <<r.seller_name, r.blanket_id>>
          IN /\ (pc[p] = "pdo_commit" /\ pc'[p] = "pdo_refresh")
                  => /\ kd \in DOMAIN distributor_stock'
                     /\ kd \notin DOMAIN distributor_stock
                          => distributor_stock'[kd] = r.quantity
                     /\ (kd \in DOMAIN distributor_stock /\ distributor_stock[kd] = 0)
                          => distributor_stock'[kd] = r.quantity
             /\ (pc[p] = "pso_commit" /\ pc'[p] = "pso_refresh")
                  => /\ ks \in DOMAIN seller_inventory'
                     /\ kd \in DOMAIN distributor_stock'
                     /\ ks \notin DOMAIN seller_inventory
                          => seller_inventory'[ks] = r.quantity
                     /\ (ks \in DOMAIN seller_inventory /\ seller_inventory[ks] = 0)
                          => seller_inventory'[ks] = r.quantity
             /\ (pc[p] = "pco_commit" /\ pc'[p] = "pco_refresh")
                  => ks \in DOMAIN seller_inventory'
  ]_vars

\* ---- C22 ----
\* the three stock tables
stock_tables == <<blankets, distributor_stock, seller_inventory, stock_rows>>

\* W22: a purchase of a positive quantity succeeded and the seller's row holds what it
\* held less the quantity
C22_Witness ==
  \E p \in Procs :
    /\ Succeeded(p)
    /\ req[p].op = "customer_purchase"
    /\ req[p].quantity > 0
    /\ seller_inventory[<<req[p].seller_name, req[p].blanket_id>>]
         = sess[p].src - req[p].quantity

\* C22: the commit of a purchase of q takes exactly q off the seller's row for the
\* product and leaves every other stock row, at every tier, as it was, creating none;
\* no other step of a purchase writes a stock table.
C22_PurchaseFrame ==
  [][\A p \in Procs :
       LET r == req[p]
           k == <<r.seller_name, r.blanket_id>>
       IN (r.op = "customer_purchase" /\ Stepped(p)) =>
            IF pc[p] = "pco_commit"
            THEN /\ seller_inventory'[k] = seller_inventory[k] - r.quantity
                 /\ DOMAIN seller_inventory' = DOMAIN seller_inventory
                 /\ \A j \in DOMAIN seller_inventory :
                      j # k => seller_inventory'[j] = seller_inventory[j]
                 /\ blankets' = blankets
                 /\ distributor_stock' = distributor_stock
                 /\ stock_rows' = stock_rows
            ELSE stock_tables' = stock_tables
  ]_vars

\* ---- C23 ----
\* W23: a distributor -> seller transfer of a positive quantity to a seller with a
\* listing returned, after its resync wrote the listing
C23_Witness ==
  \E p \in Procs :
    /\ Succeeded(p)
    /\ req[p].op = "process_seller_order"
    /\ req[p].quantity > 0
    /\ sess[p].product_found
    /\ out[p].source_remaining = sess[p].src - req[p].quantity
    /\ out[p].dest_stock = sess[p].dst + req[p].quantity

\* C23: a transfer that succeeded returns the balances the store holds: the
\* manufacturer -> distributor transfer the blanket's stock, the distributor's
\* quantity and the id of the order it appended; the distributor -> seller transfer
\* the distributor's and the seller's quantities; the purchase the seller's quantity;
\* and each returns the requested quantity as processed_quantity.
C23_ReturnedBalances ==
  \A p \in Procs :
    (Succeeded(p) /\ req[p].op \in Transfers) =>
      LET r == req[p]
          kd == <<r.distributor_name, r.blanket_id>>
          ks == <<r.seller_name, r.blanket_id>>
      IN /\ out[p].processed_quantity = r.quantity
         /\ r.op = "process_distributor_order"
              => /\ out[p].source_remaining = blankets[r.blanket_id]
                 /\ out[p].dest_stock = distributor_stock[kd]
                 /\ out[p].order_id = Len(distributor_orders)
                 /\ distributor_orders[out[p].order_id].quantity = r.quantity
                 /\ distributor_orders[out[p].order_id].blanket_id = r.blanket_id
         /\ r.op = "process_seller_order"
              => /\ out[p].source_remaining = distributor_stock[kd]
                 /\ out[p].dest_stock = seller_inventory[ks]
         /\ r.op = "customer_purchase"
              => out[p].source_remaining = seller_inventory[ks]

\* ---- C24 ----
\* the stations of the run: the stock of the three tiers, the listing and the journals
Tiers(producer, distributor, seller) ==
  /\ blankets[1] = producer
  /\ distributor_stock = [k \in IF distributor = NoTotal THEN {} ELSE {<<"D1", 1>>} |-> distributor]
  /\ seller_inventory = [k \in IF seller = NoTotal THEN {} ELSE {<<"S1", 1>>} |-> seller]

Journals(nd, ns, nc) ==
  /\ Len(distributor_orders) = nd
  /\ Len(seller_orders) = ns
  /\ Len(customer_orders) = nc

Listed(quantity, availability) ==
  /\ DOMAIN products_for_sale = {<<UserId("S1"), 1>>}
  /\ products_for_sale[<<UserId("S1"), 1>>]
       = [price |-> 500, quantity |-> quantity, availability |-> availability]

AtStart == Tiers(100, NoTotal, NoTotal) /\ products_for_sale = <<>> /\ Journals(0, 0, 0)

AfterFirst ==
  /\ Tiers(70, 30, NoTotal)
  /\ products_for_sale = <<>>
  /\ Journals(1, 0, 0)
  /\ distributor_orders[1].quantity = 30

AfterSecond ==
  /\ Tiers(70, 10, 20)
  /\ products_for_sale = <<>>
  /\ Journals(1, 1, 0)
  /\ seller_orders[1].quantity = 20

AfterPublish == Tiers(70, 10, 20) /\ Listed(20, IN_STOCK) /\ Journals(1, 1, 0)

Sold ==
  /\ Journals(1, 1, 1)
  /\ customer_orders[1].quantity = 20
  /\ customer_orders[1].has_value
  /\ customer_orders[1].total_value = 10000

MidPurchase == Tiers(70, 10, 0) /\ Listed(20, IN_STOCK) /\ Sold

AtEnd == Tiers(70, 10, 0) /\ Listed(0, OUT_OF_STOCK) /\ Sold

Asks(p, op, quantity) == req[p].op = op /\ req[p].quantity = quantity /\ ~req[p].has_total

\* W24: the run reached its end: the purchase of 20 returned its success, one request
\* of the five having been refused on the way
C24_Witness ==
  \E p \in Procs :
    /\ nops = ScenarioOps
    /\ AtEnd
    /\ Succeeded(p)
    /\ Asks(p, "customer_purchase", 20)
    /\ out[p].total_value = 10000

\* C24: from a producer holding 100 and nothing else: a transfer of 30 to D1 leaves the
\* producer 70, D1 30 and one distributor order; a transfer of 50 from D1 to S1 is then
\* refused for insufficient stock and changes nothing; a transfer of 20 leaves D1 10 and
\* S1 20; S1 publishing at 5.00 gives a listing of quantity 20, in stock; a purchase of
\* 20 with no total supplied succeeds with total 100.00, S1 at 0 and the listing at
\* quantity 0, out of stock.
C24_Scenario ==
  [][\A p \in Procs :
       (Stepped(p) /\ pc[p] # "done") =>
         /\ (AtStart /\ Asks(p, "process_distributor_order", 30))
              => /\ out'[p].status # "error"
                 /\ IF pc[p] = "pdo_commit" THEN AfterFirst' ELSE store' = store
         /\ (AfterFirst /\ Asks(p, "process_distributor_order", 30) /\ pc[p] = "pdo_refresh")
              => /\ store' = store
                 /\ pc'[p] = "done"
                 /\ out'[p].status = "ok"
                 /\ out'[p].source_remaining = 70
                 /\ out'[p].dest_stock = 30
         /\ (AfterFirst /\ Asks(p, "process_seller_order", 50))
              => /\ pc'[p] = "done"
                 /\ out'[p].status = "error"
                 /\ out'[p].err = "InsufficientStock"
                 /\ store' = store
         /\ (AfterFirst /\ Asks(p, "process_seller_order", 20))
              => /\ out'[p].status # "error"
                 /\ IF pc[p] = "pso_commit" THEN AfterSecond' ELSE store' = store
         /\ (AfterSecond /\ Asks(p, "process_seller_order", 20)
                /\ pc[p] \in {"pso_refresh", "sync_read"})
              => /\ store' = store
                 /\ out'[p].status # "error"
                 /\ pc'[p] = "done"
                      => /\ out'[p].status = "ok"
                         /\ out'[p].source_remaining = 10
                         /\ out'[p].dest_stock = 20
         /\ (AfterSecond /\ req[p].op = "create_product_for_sale" /\ req[p].price = 500)
              => IF pc[p] = "publish_commit"
                 THEN AfterPublish' /\ pc'[p] = "done" /\ out'[p].status = "ok"
                 ELSE store' = store /\ out'[p].status # "error"
         /\ (AfterPublish /\ Asks(p, "customer_purchase", 20))
              => /\ out'[p].status # "error"
                 /\ IF pc[p] = "pco_commit" THEN MidPurchase' ELSE store' = store
         /\ (MidPurchase /\ Asks(p, "customer_purchase", 20))
              => IF pc[p] = "sync_commit"
                 THEN /\ AtEnd'
                      /\ pc'[p] = "done"
                      /\ out'[p].status = "ok"
                      /\ out'[p].has_value
                      /\ out'[p].total_value = 10000
                      /\ out'[p].source_remaining = 0
                 ELSE store' = store /\ pc'[p] # "done"
  ]_vars

\* ---- C25 ----
\* W25: a distributor -> seller transfer between two known users was refused because
\* the distributor has no row for the product
C25_Witness ==
  \E p \in Procs :
    /\ Failed(p, "NoStock")
    /\ req[p].op = "process_seller_order"
    /\ req[p].seller_name \in UserNames
    /\ req[p].distributor_name \in UserNames
    /\ <<req[p].distributor_name, req[p].blanket_id>> \notin DOMAIN distributor_stock

\* C25: a manufacturer -> distributor transfer of a product no blanket row has, and a
\* distributor -> seller transfer whose seller is unknown, whose distributor is
\* unknown, or whose distributor has no stock row for the product, end in an error at
\* their first step, with the stock tables, the listings, the journals and the
\* session's pending state as they were.
C25_UnknownEntity ==
  [][\A p \in Procs :
       LET r == req[p]
           unknown ==
             \/ pc[p] = "pdo_check" /\ r.blanket_id \notin DOMAIN blankets
             \/ /\ pc[p] = "pso_check"
                /\ \/ r.seller_name \notin UserNames
                   \/ r.distributor_name \notin UserNames
                   \/ <<r.distributor_name, r.blanket_id>> \notin DOMAIN distributor_stock
       IN (unknown /\ Stepped(p)) =>
            /\ pc'[p] = "done"
            /\ out'[p].status = "error"
            /\ out'[p].err \in {"BlanketNotFound", "SellerNotFound", "DistributorNotFound",
                                "NoStock"}
            /\ store' = store
            /\ sess' = sess
  ]_vars

\* ---- C26 ----
\* W26: an update that supplied a new availability and no price went through on a
\* listing that holds stock
C26_Witness ==
  \E p \in Procs :
    /\ Succeeded(p)
    /\ req[p].op = "update_product_for_sale"
    /\ ~req[p].set_price
    /\ req[p].availability # ""
    /\ req[p].availability # sess[p].p_availability
    /\ products_for_sale[<<req[p].owner, req[p].blanket_id>>].availability = req[p].availability
    /\ products_for_sale[<<req[p].owner, req[p].blanket_id>>].price = sess[p].price
    /\ products_for_sale[<<req[p].owner, req[p].blanket_id>>].quantity > 0

\* C26: update_product_for_sale writes the listing it addresses and nothing else: the
\* price becomes the supplied price and the availability the supplied availability, a
\* field not supplied keeps its value, the listing's quantity is untouched, and the
\* stock tables, the other listings and the journals are as they were.
C26_UpdateFrame ==
  [][\A p \in Procs :
       LET r == req[p]
           k == <<r.owner, r.blanket_id>>
       IN (r.op = "update_product_for_sale" /\ Stepped(p) /\ pc[p] # "done") =>
            /\ stock_tables' = stock_tables
            /\ journals' = journals
            /\ DOMAIN products_for_sale' = DOMAIN products_for_sale
            /\ \A j \in DOMAIN products_for_sale :
                 j # k => products_for_sale'[j] = products_for_sale[j]
            /\ pc[p] = "upd_read" => products_for_sale' = products_for_sale
            /\ pc[p] = "upd_commit"
                 => /\ out'[p].status = "ok"
                    /\ products_for_sale'[k].quantity = products_for_sale[k].quantity
                    /\ products_for_sale'[k].price
                         = IF r.set_price THEN r.price ELSE products_for_sale[k].price
                    /\ products_for_sale'[k].availability
                         = IF r.availability # "" THEN r.availability
                           ELSE products_for_sale[k].availability
  ]_vars

\* ---- C27 ----
\* C27: when a purchase of a positive quantity commits its debit, the pair it buys
\* from has a listing, the listing is not Out of stock, and the listing's quantity is
\* at least the quantity bought, whatever another request did since the purchase
\* looked at the listing.
C27_ListingAtCommit ==
  [][\A p \in Procs :
       (pc[p] = "pco_commit" /\ Stepped(p) /\ req[p].quantity > 0) =>
         LET l == ListingOf(products_for_sale, req[p].seller_name, req[p].blanket_id)
         IN /\ l.found
            /\ l.availability # OUT_OF_STOCK
            /\ l.quantity >= req[p].quantity
  ]_vars

\* ---- C28 ----
\* W28: two transfers of the same kind between the same parties, both of a positive
\* quantity and both started before either finished, have both finished
C28_Witness ==
  \E p, q \in Procs :
    /\ p # q
    /\ pc[p] = "done"
    /\ pc[q] = "done"
    /\ req[p].op \in Transfers
    /\ req[q].op = req[p].op
    /\ req[p].quantity > 0
    /\ req[q].quantity > 0
    /\ sess[p].src = sess[q].src
    /\ out[p].status \in {"ok", "error"}
    /\ out[q].status \in {"ok", "error"}

\* C28: every transfer that was started finishes, with a success or with an error,
\* however its steps interleave with those of another transfer on the same rows.
C28_Terminates ==
  \A p \in Procs :
    (pc[p] \notin {"idle", "done"})
      ~> (pc[p] = "done" /\ out[p].status \in {"ok", "error"})

\* ---- C29 ----
\* the stock row a transfer credits (none for a purchase)
DestOf(r) ==
  IF r.op = "process_distributor_order" THEN <<"distributor_stock", r.distributor_name, r.blanket_id>>
  ELSE IF r.op = "process_seller_order" THEN <<"seller_inventory", r.seller_name, r.blanket_id>>
  ELSE <<"none", r.customer_name, r.blanket_id>>

\* what a stock row named as SourceOf and DestOf name it holds now
Held(row) ==
  IF row[1] = "blankets" THEN blankets[row[3]]
  ELSE IF row[1] = "distributor_stock" THEN distributor_stock[<<row[2], row[3]>>]
  ELSE seller_inventory[<<row[2], row[3]>>]

\* two transfers of positive quantities that overlapped (each read the common row
\* before the other committed) and have both succeeded
BothSucceeded(p, r) ==
  /\ p # r
  /\ Succeeded(p) /\ Succeeded(r)
  /\ req[p].op \in Transfers /\ req[r].op \in Transfers
  /\ req[p].quantity > 0 /\ req[r].quantity > 0

\* C29: two overlapping transfers of q1 and q2 out of one source row holding S, with
\* q1 + q2 <= S, that both succeed leave the row at S - q1 - q2; two overlapping
\* credits of q1 and q2 to one existing destination row holding D leave it at
\* D + q1 + q2.
C29_NoLostUpdate ==
  \A p \in Procs, r \in Procs :
    BothSucceeded(p, r) =>
      /\ (/\ SourceOf(req[p]) = SourceOf(req[r])
          /\ sess[p].src = sess[r].src
          /\ req[p].quantity + req[r].quantity <= sess[p].src)
           => Held(SourceOf(req[p])) = sess[p].src - req[p].quantity - req[r].quantity
      /\ (/\ DestOf(req[p]) = DestOf(req[r])
          /\ req[p].op # "customer_purchase"
          /\ sess[p].dst_found /\ sess[r].dst_found
          /\ sess[p].dst = sess[r].dst)
           => Held(DestOf(req[p])) = sess[p].dst + req[p].quantity + req[r].quantity

\* ---- C30 ----
\* C30: once every request has returned, the quantity of each listing is the quantity
\* of its seller's stock row.
C30_ListingFollowsStock ==
  (\A p \in Procs : pc[p] \in {"idle", "done"}) =>
    \A s \in UserNames, b \in KnownBlankets :
      <<UserId(s), b>> \in DOMAIN products_for_sale =>
        /\ <<s, b>> \in DOMAIN seller_inventory
        /\ products_for_sale[<<UserId(s), b>>].quantity = seller_inventory[<<s, b>>]

\* ---- C31 ----
\* C31: whatever integer quantity a transfer is asked for, its commit does not raise
\* the source's quantity, does not lower the destination's, and leaves no stock row,
\* a newly created destination row included, below zero.
C31_NeverBackwards ==
  [][\A p \in Procs :
       (req[p].op \in Transfers /\ pc[p] \in CommitSteps /\ Stepped(p)) =>
         LET src == SourceOf(req[p])
             dst == DestOf(req[p])
             dstBefore == IF dst[1] = "distributor_stock"
                          THEN QuantityOf(distributor_stock, <<dst[2], dst[3]>>)
                          ELSE QuantityOf(seller_inventory, <<dst[2], dst[3]>>)
             dstAfter == IF dst[1] = "distributor_stock"
                         THEN QuantityOf(distributor_stock', <<dst[2], dst[3]>>)
                         ELSE QuantityOf(seller_inventory', <<dst[2], dst[3]>>)
         IN /\ Held(src)' <= Held(src)
            /\ Held(src)' >= 0
            /\ dst[1] # "none" => (dstAfter >= dstBefore /\ dstAfter >= 0)
  ]_vars

\* ---- C32 ----
\* C32: the distributor order a manufacturer -> distributor transfer appends carries,
\* as distributor_id, the id of the user whose distributor_stock row the transfer
\* credited.
C32_OrderNamesCredited ==
  [][\A p \in Procs :
       (pc[p] = "pdo_commit" /\ pc'[p] = "pdo_refresh" /\ req[p].quantity > 0) =>
         LET order == distributor_orders'[Len(distributor_orders')]
             k == <<req[p].distributor_name, req[p].blanket_id>>
         IN /\ k \in DOMAIN distributor_stock'
            /\ order.distributor_id = UserId(req[p].distributor_name)
  ]_vars

\* ---- C33 ----
\* what a distributor's row holds beyond what the journals account for: the
\* distributor orders to the distributor less the seller orders from it
DistributorExcess(d, b) ==
  QuantityOf(distributor_stock, <<d, b>>)
    - SumQuantities(SelectSeq(distributor_orders,
                              LAMBDA o : o.distributor_id = UserId(d) /\ o.blanket_id = b))
    + SumQuantities(SelectSeq(seller_orders,
                              LAMBDA o : o.distributor_id = UserId(d) /\ o.blanket_id = b))

\* what a seller's row holds beyond the seller orders to the seller less the customer
\* orders from it
SellerExcess(s, b) ==
  QuantityOf(seller_inventory, <<s, b>>)
    - SumQuantities(SelectSeq(seller_orders,
                              LAMBDA o : o.seller_id = UserId(s) /\ o.blanket_id = b))
    + SumQuantities(SelectSeq(customer_orders,
                              LAMBDA o : o.seller_name = s /\ o.blanket_id = b))

\* C33: stock and journals stay reconciled: no step changes, for any distributor or
\* seller and product, the difference between the stock row and what the journals
\* account for (orders in less orders out); starting reconciled, every reachable
\* state is.
C33_Reconciled ==
  [][\A n \in UserNames, b \in KnownBlankets :
       /\ DistributorExcess(n, b)' = DistributorExcess(n, b)
       /\ SellerExcess(n, b)' = SellerExcess(n, b)
  ]_vars

\* ---- C34 ----
\* C34: every journal record stands for a stock movement: a step that appends a
\* distributor order takes the record's quantity from the producer's stock of the
\* record's blanket, and a step that appends a customer order takes the record's
\* quantity from the stock of the record's seller, in that same step.
C34_RecordMeansDebit ==
  [][/\ Len(distributor_orders') > Len(distributor_orders) =>
          LET o == distributor_orders'[Len(distributor_orders')]
          IN /\ o.blanket_id \in DOMAIN blankets
             /\ blankets'[o.blanket_id] = blankets[o.blanket_id] - o.quantity
     /\ Len(customer_orders') > Len(customer_orders) =>
          LET o == customer_orders'[Len(customer_orders')]
              k == <<o.seller_name, o.blanket_id>>
          IN /\ k \in DOMAIN seller_inventory
             /\ seller_inventory'[k] = seller_inventory[k] - o.quantity
  ]_vars

\* ---- C35 ----
\* a table holds, outside the given keys, the rows it held and no others
SameExcept(old, new, keys) ==
  \A j \in (DOMAIN old \cup DOMAIN new) \ keys :
    j \in DOMAIN old /\ j \in DOMAIN new /\ new[j] = old[j]

\* the listing a transfer to or from a seller may resync
ListingKeys(r) ==
  IF r.seller_name \in UserNames THEN {<<UserId(r.seller_name), r.blanket_id>>} ELSE {}

C36_Witness ==
  \E p \in Procs :
    /\ Succeeded(p)
    /\ req[p].op = "customer_purchase"
    /\ seller_orders # <<>>
    /\ sess[p].src = SumQuantities(seller_orders)
    /\ SumQuantities(customer_orders) = 50 + req[p].quantity

\* C36: the sell-out and restock cycle of a published pair.  While the seller's
\* stock is 0, a purchase of a positive quantity is refused with OutOfStock and
\* writes nothing; a distributor -> seller transfer of q > 0 that found the stock
\* at 0 leaves the listing In stock with quantity q; and a purchase of a positive
\* quantity fails only when it asks for more than the seller holds, writing nothing.
C36_SellOutRestock ==
  [][\A p \in Procs :
       LET r == req[p]
           k == <<r.seller_name, r.blanket_id>>
           l == <<UserId(r.seller_name), r.blanket_id>>
       IN /\ (r.op = "customer_purchase" /\ pc[p] = "cp_listing" /\ Stepped(p)
                /\ r.quantity > 0 /\ l \in DOMAIN products_for_sale
                /\ QuantityOf(seller_inventory, k) = 0) =>
               (Failed(p, "OutOfStock")' /\ store' = store)
          /\ (r.op = "process_seller_order" /\ Stepped(p) /\ Succeeded(p)'
                /\ r.quantity > 0 /\ sess[p].dst = 0 /\ l \in DOMAIN products_for_sale) =>
               /\ products_for_sale'[l].quantity = r.quantity
               /\ products_for_sale'[l].availability = IN_STOCK
          /\ (r.op = "customer_purchase" /\ Stepped(p) /\ pc'[p] = "done"
                /\ r.quantity > 0 /\ l \in DOMAIN products_for_sale
                /\ out'[p].status = "error") =>
               (r.quantity > QuantityOf(seller_inventory, k) /\ store' = store)
  ]_vars

\* ---- C37 ----
\* the two operations that address a listing by its id on behalf of a seller
ListingEdits == {"update_product_for_sale", "delete_product_for_sale"}

\* W37: a delete addressed at a listing that exists and belongs to another seller
\* was refused, and the listing is still there
C37_Witness ==
  \E p \in Procs :
    /\ Failed(p, "ProductNotFound")
    /\ req[p].op = "delete_product_for_sale"
    /\ req[p].owner # UserId(req[p].user)
    /\ <<req[p].owner, req[p].blanket_id>> \in DOMAIN products_for_sale

\* C37: an update or a delete addressed at a listing that is not the caller's, or at
\* no listing, fails with the not-found error at its lookup and writes nothing: the
\* listing keeps its price, availability and quantity and stays in the table.
C37_OwnListingOnly ==
  [][\A p \in Procs :
       LET r == req[p]
           k == <<r.owner, r.blanket_id>>
       IN (r.op \in ListingEdits /\ Stepped(p) /\ pc[p] \in {"upd_read", "del_read"}
            /\ (r.owner # UserId(r.user) \/ k \notin DOMAIN products_for_sale)) =>
            /\ Failed(p, "ProductNotFound")'
            /\ products_for_sale' = products_for_sale
            /\ store' = store
  ]_vars

\* ---- C38 ----
\* W38: a pair was published again after its listing had been deleted (every run
\* of the desk starts with the pair published)
C38_Witness ==
  \E p \in Procs :
    /\ Succeeded(p)
    /\ req[p].op = "create_product_for_sale"
    /\ <<UserId(req[p].seller_name), req[p].blanket_id>> \in DOMAIN products_for_sale

\* C38: the commit of a delete takes the addressed listing, and nothing else, out of
\* the listings and leaves stock and journals as they were.  With the listing gone, a
\* purchase for the pair is refused with NotPublished and writes nothing; a
\* distributor -> seller transfer to the seller fails only at its own checks of the
\* distributor's stock and the seller; and publishing the pair again succeeds with
\* the quantity the seller's row holds and the availability that quantity gives.
C38_DeleteAndAfter ==
  [][\A p \in Procs :
       LET r == req[p]
           k == <<r.seller_name, r.blanket_id>>
           l == <<UserId(r.seller_name), r.blanket_id>>
           gone == l \notin DOMAIN products_for_sale
       IN /\ (r.op = "delete_product_for_sale" /\ pc[p] = "del_commit" /\ Stepped(p)) =>
               /\ Succeeded(p)'
               /\ DOMAIN products_for_sale' = DOMAIN products_for_sale \ {<<r.owner, r.blanket_id>>}
               /\ \A j \in DOMAIN products_for_sale' : products_for_sale'[j] = products_for_sale[j]
               /\ stock_tables' = stock_tables
               /\ journals' = journals
          /\ (r.op = "customer_purchase" /\ pc[p] = "cp_listing" /\ Stepped(p) /\ gone) =>
               (Failed(p, "NotPublished")' /\ store' = store)
          /\ (r.op = "process_seller_order" /\ Stepped(p) /\ gone /\ pc'[p] = "done") =>
               (Succeeded(p)' \/ pc[p] = "pso_check")
          /\ (r.op = "create_product_for_sale" /\ Stepped(p) /\ gone
                /\ k \in DOMAIN seller_inventory /\ pc[p] # "done") =>
               IF pc[p] = "publish_check" THEN pc'[p] = "publish_commit"
               ELSE /\ Succeeded(p)'
                    /\ products_for_sale'[l].quantity = seller_inventory[k]
                    /\ products_for_sale'[l].availability =
                         (IF seller_inventory[k] > 0 THEN IN_STOCK ELSE OUT_OF_STOCK)
  ]_vars
====
